---------------------------- MODULE Spec2Model ----------------------------
(***************************************************************************)
(* A model of the Qwen3-TTS service of digitwin-live                       *)
(* (src/services/qwen3-tts-service): the voice library and its index file, *)
(* the lazily loaded model handles, the request handlers as asyncio tasks, *)
(* the temporary files of the audio validator and the sentence stream.     *)
(*                                                                         *)
(* Scheduling.  The handlers are coroutines of one event loop.  A task     *)
(* runs from one suspension point to the next without interruption;        *)
(* `running` names the task that occupies the loop (None: it is idle).     *)
(* The suspension points of the code are the run_in_executor awaits, the   *)
(* yields of the streaming generator and a contended lock acquisition.     *)
(* Blocking calls (from_pretrained, the generate methods) keep the loop.   *)
(***************************************************************************)
EXTENDS Naturals, Sequences, FiniteSets, TLC

VARIABLES
    \* ---- voice_library.py: VoiceLibrary
    voices,          \* self._voices, an insertion-ordered dict, as the sequence of its values
    index_file,      \* LIBRARY_INDEX on disk: [state, data]
    next_uuid,       \* how many uuid4() values have been drawn
    last_save,       \* outcome of the most recent _save call
    lib_last,        \* the most recent library call and what it returned
    \* ---- service.py: Qwen3TTSService and the module-level lock
    custom_voice_model,          \* handle (0: None, n: the n-th object from_pretrained built)
    base_model,
    custom_voice_model_loaded,
    base_model_loaded,
    init_error,                  \* Optional[str]
    model_lock,                  \* _model_lock.locked()
    constructed,                 \* per model: from_pretrained calls that returned an object
    load_attempts,               \* initialization sequences that got past the early return
    \* ---- the event loop and its tasks
    running,
    pc,
    req,
    ret,
    path,            \* which service method the task is inside: "synth", "clone", "stream"
    used_model,      \* the handle a task's generation ran on (0: none)
    calls,           \* per task: how often validate_audio_sample, the ASR, the translator
                     \* and the TTS model were called, TTS calls that raised, and
                     \* whether the try block of a streaming call was entered
    loc,             \* per task: the locals that live across a suspension
    \* ---- temporary files
    tmp_files,       \* temp files that exist on disk
    created,         \* per task: every temp file the task's call created
    \* ---- the model cache
    markers,         \* the directories that hold a .download_complete file
    gcs_bucket,      \* Config.GCS_MODEL_BUCKET of the running process
    resolved,        \* per model: the last _resolve_model_path call
    \* ---- translation_provider.py
    provider,        \* _argos_available and _deep_translator_available
    translated,      \* the last call of translate made on its own (TranslateCall)
    \* ---- direct calls of the validator
    validated,       \* the last validate_audio_sample call on a raw buffer
    \* ---- xtts-service/main.py
    tts_model,       \* the module global (0: None, n: the n-th object TTS() built)
    xtts_service,    \* the XTTSService singleton: model and model_loaded
    xtts_log,        \* TTS() calls made and objects built; the startup task
    xtts_call,       \* the last synthesize call
    \* ---- synthesize_stream
    sentences,       \* per task: the list _split_sentences returned
    loop_i,          \* per task: i of the for loop
    sequence,        \* per task: the local `sequence`
    chunks           \* per task: the StreamChunks yielded so far

libVars == <<voices, index_file, next_uuid, last_save, lib_last>>
svcVars == <<custom_voice_model, base_model, custom_voice_model_loaded,
             base_model_loaded, init_error, model_lock, constructed, load_attempts>>
taskVars == <<running, pc, req, ret, path, used_model, calls, loc>>
cacheVars == <<markers, gcs_bucket, resolved>>
translatorVars == <<provider, translated>>
xttsVars == <<tts_model, xtts_service, xtts_log, xtts_call>>
extVars == <<translatorVars, validated, xttsVars>>
fsVars == <<tmp_files, created, cacheVars, extVars>>
streamVars == <<sentences, loop_i, sequence, chunks>>
vars == <<libVars, svcVars, taskVars, fsVars, streamVars>>

-----------------------------------------------------------------------------
(* Optional[T]: None is the empty sequence, a value v is <<v>>.            *)
None == <<>>
Some(v) == <<v>>
IsNone(o) == o = <<>>
\* Python truthiness of an Optional[str]: None and "" are falsy.
Truthy(o) == o # <<>> /\ o[1] # ""

-----------------------------------------------------------------------------
(***************************************************************************)
(* voice_library.py                                                        *)
(***************************************************************************)

\* How many voices are ever added.
MaxVoices == 2

Timestamps == {"2026-01-01T00:00:00+00:00"}

VoiceEntry(id, name, description, ref_audio_b64, ref_text, created_at, language_hint) ==
    [id |-> id, name |-> name, description |-> description,
     ref_audio_b64 |-> ref_audio_b64, ref_text |-> ref_text,
     created_at |-> created_at, language_hint |-> language_hint]

\* str(uuid.uuid4()): the n-th value drawn; distinct draws are distinct.
uuid4(n) == "uuid-" \o ToString(n)

\* ---- JSON documents: a string or null per field.
JsonStr(s) == [t |-> "string", v |-> s]
JsonNull == [t |-> "null", v |-> ""]

JsonOpt(o) == IF IsNone(o) THEN JsonNull ELSE JsonStr(o[1])

\* dataclasses.asdict(v) as json.dump writes it.
asdict(e) ==
    [id |-> JsonStr(e.id), name |-> JsonStr(e.name),
     description |-> JsonStr(e.description),
     ref_audio_b64 |-> JsonStr(e.ref_audio_b64),
     ref_text |-> JsonOpt(e.ref_text),
     created_at |-> JsonStr(e.created_at),
     language_hint |-> JsonStr(e.language_hint)]

\* [asdict(v) for v in self._voices.values()]
json_dump(vs) == [i \in 1..Len(vs) |-> asdict(vs[i])]

PyOpt(j) == IF j.t = "null" THEN None ELSE Some(j.v)

from_json_mut(o) ==
    VoiceEntry(o.id.v, o.name.v, o.description.v, o.ref_audio_b64.v,
               Some(o.ref_text.v), o.created_at.v, o.language_hint.v)

\* VoiceEntry(**entry) on an object json.load returned.
from_json(o) ==
    VoiceEntry(o.id.v, o.name.v, o.description.v, o.ref_audio_b64.v,
               PyOpt(o.ref_text), o.created_at.v, o.language_hint.v)

\* ---- the dict self._voices
IndexOf(vs, id) ==
    IF \E i \in 1..Len(vs) : vs[i].id = id
    THEN CHOOSE i \in 1..Len(vs) : vs[i].id = id
    ELSE 0

\* self._voices[e.id] = e
lose_others_mut(vs, e) == <<e>>

DictPut(vs, e) ==
    IF IndexOf(vs, e.id) = 0 THEN Append(vs, e)
    ELSE [vs EXCEPT ![IndexOf(vs, e.id)] = e]

\* del self._voices[id]
DictDel(vs, id) == SelectSeq(vs, LAMBDA e : e.id # id)

get_voice(vs, id) ==
    IF IndexOf(vs, id) = 0 THEN None ELSE Some(vs[IndexOf(vs, id)])

list_voices(vs) == vs

\* ---- persistence
AbsentFile == [state |-> "absent", data |-> <<>>]
CorruptFile == [state |-> "corrupt", data |-> <<>>]

\* The outcomes of one _save call: the write goes through; makedirs or open
\* raises and the file is left as it was; open truncates the file and the
\* write raises part-way, leaving no JSON document.
SaveOutcomes == {"ok", "open_failed", "write_failed"}

\* _save: the index file after the call (the exception is logged, not raised).
_save(vs, file, outcome) ==
    CASE outcome = "ok" -> [state |-> "ok", data |-> json_dump(vs)]
      [] outcome = "open_failed" -> file
      [] OTHER -> CorruptFile

RECURSIVE load_entries(_, _)
load_entries(data, vs) ==
    IF data = <<>> THEN vs
    ELSE load_entries(Tail(data), DictPut(vs, from_json(Head(data))))

\* _load into an empty dict: a missing file or one json.load rejects leaves it empty.
_load(file) ==
    IF file.state = "ok" THEN load_entries(file.data, <<>>) ELSE <<>>

\* ---- what the callers pass
AddArgs ==
    { [name |-> "alice", ref_audio_b64 |-> "wav-5s", description |-> "",
       ref_text |-> None, language_hint |-> "en"],
      [name |-> "bob", ref_audio_b64 |-> "flac-3s", description |-> "studio",
       ref_text |-> Some("hello there"), language_hint |-> "ur"] }

UpdateNames == {None, Some("bob")}
UpdateDescriptions == {None, Some("studio")}

KnownIds == {uuid4(n) : n \in 1..MaxVoices}
UnknownId == "no-such-voice"
VoiceIds == KnownIds \cup {UnknownId}

NoCall == [op |-> "none", id |-> "", ret |-> None, mutated |-> FALSE]

InitLib ==
    /\ voices = _load(AbsentFile)
    /\ index_file = AbsentFile
    /\ next_uuid = 0
    /\ last_save = "none"
    /\ lib_last = NoCall

add_voice_mut(a, created_at, outcome) ==
    LET voice_id == uuid4(next_uuid + 1)
        entry == VoiceEntry(voice_id, a.name, a.description, a.ref_audio_b64,
                            None, created_at, "en")
        vs == DictPut(voices, entry)
    IN  /\ voices' = vs
        /\ index_file' = _save(vs, index_file, outcome)
        /\ next_uuid' = next_uuid + 1
        /\ last_save' = outcome
        /\ lib_last' = [op |-> "add", id |-> voice_id, ret |-> Some(entry),
                        mutated |-> TRUE]

\* add_voice: the library state after the call.
add_voice(a, created_at, outcome) ==
    LET voice_id == uuid4(next_uuid + 1)
        entry == VoiceEntry(voice_id, a.name, a.description, a.ref_audio_b64,
                            a.ref_text, created_at, a.language_hint)
        vs == DictPut(voices, entry)
    IN  /\ voices' = vs
        /\ index_file' = _save(vs, index_file, outcome)
        /\ next_uuid' = next_uuid + 1
        /\ last_save' = outcome
        /\ lib_last' = [op |-> "add", id |-> voice_id, ret |-> Some(entry),
                        mutated |-> TRUE]

delete_all_mut(voice_id, outcome) ==
    IF IndexOf(voices, voice_id) = 0
    THEN /\ lib_last' = [op |-> "delete", id |-> voice_id, ret |-> None,
                         mutated |-> FALSE]
         /\ UNCHANGED <<voices, index_file, next_uuid, last_save>>
    ELSE /\ voices' = <<>>
         /\ index_file' = _save(<<>>, index_file, outcome)
         /\ last_save' = outcome
         /\ lib_last' = [op |-> "delete", id |-> voice_id, ret |-> Some(voice_id),
                         mutated |-> TRUE]
         /\ UNCHANGED next_uuid

\* delete_voice: ret is None for False, Some(id) for True.
delete_voice(voice_id, outcome) ==
    IF IndexOf(voices, voice_id) = 0
    THEN /\ lib_last' = [op |-> "delete", id |-> voice_id, ret |-> None,
                         mutated |-> FALSE]
         /\ UNCHANGED <<voices, index_file, next_uuid, last_save>>
    ELSE LET vs == DictDel(voices, voice_id)
         IN  /\ voices' = vs
             /\ index_file' = _save(vs, index_file, outcome)
             /\ last_save' = outcome
             /\ lib_last' = [op |-> "delete", id |-> voice_id,
                             ret |-> Some(voice_id), mutated |-> TRUE]
             /\ UNCHANGED next_uuid

update_voice_mut(voice_id, name, description, outcome) ==
    IF IndexOf(voices, voice_id) = 0
    THEN /\ lib_last' = [op |-> "update", id |-> voice_id, ret |-> None,
                         mutated |-> FALSE]
         /\ UNCHANGED <<voices, index_file, next_uuid, last_save>>
    ELSE LET i == IndexOf(voices, voice_id)
             e0 == voices[i]
             e1 == IF IsNone(name) THEN e0 ELSE [e0 EXCEPT !.name = name[1]]
             e2 == [e1 EXCEPT !.description =
                                  IF IsNone(description) THEN "" ELSE description[1]]
             vs == [voices EXCEPT ![i] = e2]
         IN  /\ voices' = vs
             /\ index_file' = _save(vs, index_file, outcome)
             /\ last_save' = outcome
             /\ lib_last' = [op |-> "update", id |-> voice_id, ret |-> Some(e2),
                             mutated |-> TRUE]
             /\ UNCHANGED next_uuid

update_voice(voice_id, name, description, outcome) ==
    IF IndexOf(voices, voice_id) = 0
    THEN /\ lib_last' = [op |-> "update", id |-> voice_id, ret |-> None,
                         mutated |-> FALSE]
         /\ UNCHANGED <<voices, index_file, next_uuid, last_save>>
    ELSE LET i == IndexOf(voices, voice_id)
             e0 == voices[i]
             e1 == IF IsNone(name) THEN e0 ELSE [e0 EXCEPT !.name = name[1]]
             e2 == IF IsNone(description) THEN e1
                   ELSE [e1 EXCEPT !.description = description[1]]
             vs == [voices EXCEPT ![i] = e2]
         IN  /\ voices' = vs
             /\ index_file' = _save(vs, index_file, outcome)
             /\ last_save' = outcome
             /\ lib_last' = [op |-> "update", id |-> voice_id, ret |-> Some(e2),
                             mutated |-> TRUE]
             /\ UNCHANGED next_uuid

\* ---- the library on its own: calls of the CRUD methods and process restarts
LibAdd ==
    /\ next_uuid < MaxVoices
    /\ \E a \in AddArgs, ts \in Timestamps, o \in SaveOutcomes : add_voice(a, ts, o)
    /\ UNCHANGED <<svcVars, taskVars, fsVars, streamVars>>

LibUpdate ==
    /\ \E id \in VoiceIds, n \in UpdateNames, d \in UpdateDescriptions,
          o \in SaveOutcomes : update_voice(id, n, d, o)
    /\ UNCHANGED <<svcVars, taskVars, fsVars, streamVars>>

LibDelete ==
    /\ \E id \in VoiceIds, o \in SaveOutcomes : delete_voice(id, o)
    /\ UNCHANGED <<svcVars, taskVars, fsVars, streamVars>>

LibGet ==
    /\ \E id \in VoiceIds :
          lib_last' = [op |-> "get", id |-> id, ret |-> get_voice(voices, id),
                       mutated |-> FALSE]
    /\ UNCHANGED <<voices, index_file, next_uuid, last_save>>
    /\ UNCHANGED <<svcVars, taskVars, fsVars, streamVars>>

\* A new process: VoiceLibrary() reads the index file into an empty dict.
LibRestart ==
    /\ voices' = _load(index_file)
    /\ lib_last' = [op |-> "restart", id |-> "", ret |-> None, mutated |-> FALSE]
    /\ UNCHANGED <<index_file, next_uuid, last_save>>
    /\ UNCHANGED <<svcVars, taskVars, fsVars, streamVars>>

-----------------------------------------------------------------------------
(***************************************************************************)
(* service.py: the audio validator                                         *)
(***************************************************************************)

MIN_AUDIO_DURATION_SECONDS == 3

SUPPORTED_AUDIO_FORMATS == {"WAV", "wav", "FLAC", "flac", "MP3", "mp3", "M4A", "m4a"}

\* data[a:b] of Python, 0-based and end-exclusive, clipped to the buffer.
Slice(data, a, b) ==
    SubSeq(data, a + 1, IF b < Len(data) THEN b ELSE Len(data))

RIFF == <<82, 73, 70, 70>>
WAVE == <<87, 65, 86, 69>>
fLaC == <<102, 76, 97, 67>>
ID3 == <<73, 68, 51>>
ftyp == <<102, 116, 121, 112>>
wide == <<119, 105, 100, 101>>
mdat == <<109, 100, 97, 116>>
moov == <<109, 111, 111, 118>>

\* (b & 0xE0) == 0xE0 on a byte: its top three bits are set.
TopThreeBitsSet(b) == b \div 32 = 7

\* A detector that looks for the 'ftyp' box before the MPEG frame sync.
ftyp_first_mut(data) ==
    IF Len(data) < 12 THEN "UNKNOWN"
    ELSE IF Slice(data, 0, 4) = RIFF /\ Slice(data, 8, 12) = WAVE THEN "WAV"
    ELSE IF Slice(data, 0, 4) = fLaC THEN "FLAC"
    ELSE IF Slice(data, 4, 8) = ftyp THEN "M4A"
    ELSE IF Slice(data, 0, 3) = ID3 \/ (data[1] = 255 /\ TopThreeBitsSet(data[2]))
         THEN "MP3"
    ELSE IF Slice(data, 0, 4) \in {wide, mdat, moov} THEN "M4A"
    ELSE "UNKNOWN"

_detect_audio_format(data) ==
    IF Len(data) < 12 THEN "UNKNOWN"
    ELSE IF Slice(data, 0, 4) = RIFF /\ Slice(data, 8, 12) = WAVE THEN "WAV"
    ELSE IF Slice(data, 0, 4) = fLaC THEN "FLAC"
    ELSE IF Slice(data, 0, 3) = ID3 \/ (data[1] = 255 /\ TopThreeBitsSet(data[2]))
         THEN "MP3"
    ELSE IF Len(data) >= 12 /\ Slice(data, 4, 8) = ftyp THEN "M4A"
    ELSE IF Len(data) >= 8 /\ Slice(data, 0, 4) \in {wide, mdat, moov} THEN "M4A"
    ELSE "UNKNOWN"

Pad == <<0, 0, 0, 0>>

\* A base64 payload as the validator sees it: whether b64decode accepts it,
\* the decoded bytes, whether pydub can transcode it ("ok"; "from_file":
\* AudioSegment.from_file raises; "export": the export to the new WAV file
\* raises), whether soundfile can read it, and the duration it measures.
Sample(b64_ok, data, m4a, readable, duration) ==
    [b64_ok |-> b64_ok, data |-> data, m4a |-> m4a, readable |-> readable,
     duration |-> duration]

AudioNames ==
    {"wav-5s", "wav-2s", "wav-unreadable", "flac-3s", "mp3-4s", "m4a-5s", "m4a-2s",
     "m4a-from-file-fails", "m4a-export-fails", "m4a-unreadable", "mdat-5s",
     "zeros", "tiny", "not-base64"}

AudioTable(a) ==
    CASE a = "wav-5s" -> Sample(TRUE, RIFF \o Pad \o WAVE, "ok", TRUE, 5)
      [] a = "wav-2s" -> Sample(TRUE, RIFF \o Pad \o WAVE, "ok", TRUE, 2)
      [] a = "wav-unreadable" -> Sample(TRUE, RIFF \o Pad \o WAVE, "ok", FALSE, 0)
      [] a = "flac-3s" -> Sample(TRUE, fLaC \o Pad \o Pad, "ok", TRUE, 3)
      [] a = "mp3-4s" -> Sample(TRUE, <<255, 251>> \o Pad \o Pad \o Pad, "ok", TRUE, 4)
      [] a = "m4a-5s" -> Sample(TRUE, Pad \o ftyp \o Pad, "ok", TRUE, 5)
      [] a = "m4a-2s" -> Sample(TRUE, Pad \o ftyp \o Pad, "ok", TRUE, 2)
      [] a = "m4a-from-file-fails" -> Sample(TRUE, Pad \o ftyp \o Pad, "from_file", TRUE, 5)
      [] a = "m4a-export-fails" -> Sample(TRUE, Pad \o ftyp \o Pad, "export", TRUE, 5)
      [] a = "m4a-unreadable" -> Sample(TRUE, Pad \o ftyp \o Pad, "ok", FALSE, 0)
      [] a = "mdat-5s" -> Sample(TRUE, mdat \o Pad \o Pad, "ok", TRUE, 5)
      [] a = "zeros" -> Sample(TRUE, Pad \o Pad \o Pad, "ok", TRUE, 5)
      [] a = "tiny" -> Sample(TRUE, RIFF \o Pad, "ok", TRUE, 5)
      [] OTHER -> Sample(FALSE, <<>>, "ok", FALSE, 0)

\* The temp files of the k-th validate_audio_sample call of task t: the file
\* the payload is written to, and the WAV file an M4A payload is converted to.
TmpFile(t, k, kind) == <<t, k, kind>>

Raised(msg, made, left) ==
    [raised |-> TRUE, msg |-> msg, path |-> None, created |-> made, left |-> left]

\* The body of validate_audio_sample on a payload s.
validate_payload(s, write_ok, t, k) ==
    LET fmt == _detect_audio_format(s.data)
        orig == TmpFile(t, k, "orig")
        conv == TmpFile(t, k, "conv")
    IN  IF ~s.b64_ok THEN Raised("Invalid base64 audio data", {}, {})
        ELSE IF fmt \notin SUPPORTED_AUDIO_FORMATS
             THEN Raised("Unsupported audio format", {}, {})
        ELSE IF ~write_ok
             THEN Raised("Failed to read audio file", {orig}, {})
        ELSE IF fmt = "M4A" /\ s.m4a = "from_file"
             THEN Raised("Failed to convert M4A audio", {orig}, {orig})
        ELSE IF fmt = "M4A" /\ s.m4a = "export"
             THEN Raised("Failed to convert M4A audio", {orig, conv}, {orig, conv})
        ELSE LET converted == fmt = "M4A"
                 made == IF converted THEN {orig, conv} ELSE {orig}
                 name == IF converted THEN conv ELSE orig
             IN  IF ~s.readable
                 THEN Raised("Failed to read audio file", made, made \ {orig})
                 ELSE IF s.duration < MIN_AUDIO_DURATION_SECONDS
                      THEN Raised("Audio sample too short", made, {})
                      ELSE [raised |-> FALSE, msg |-> "", path |-> Some(name),
                            created |-> made, left |-> {name}]

\* A validator that accepts every sample.
accept_all_mut(audio_b64, write_ok, t, k) ==
    [raised |-> FALSE, msg |-> "", path |-> Some(TmpFile(t, k, "orig")),
     created |-> {TmpFile(t, k, "orig")}, left |-> {TmpFile(t, k, "orig")}]

\* validate_audio_sample(audio_b64) as the k-th call of task t; write_ok says
\* whether writing the payload to the temp file succeeds.  The result is the
\* ValueError raised or the path returned, with the files the call created
\* and those it left on disk.
validate_audio_sample(audio_b64, write_ok, t, k) ==
    validate_payload(AudioTable(audio_b64), write_ok, t, k)

-----------------------------------------------------------------------------
(***************************************************************************)
(* service.py: the model handles and initialize_models                     *)
(***************************************************************************)

\* Request tasks are 1..NTasks; task 0 is the startup task of main.py.
NTasks == 2
Tasks == 0..NTasks
RequestTasks == 1..NTasks

Models == {"CustomVoice", "Base"}

\* str(e) of what an initialization step raised; an exception built without
\* arguments (MemoryError(), a bare assert) has the empty message.
InitErrors == {"", "load failed"}
InitOutcomes == {[ok |-> TRUE, msg |-> ""]} \cup {[ok |-> FALSE, msg |-> m] : m \in InitErrors}

\* What a generation call does: returns audio, raises
\* torch.cuda.OutOfMemoryError, or raises something else.
GenOutcomes == {"ok", "oom", "error"}
GenError == "generation failed"

\* str(e) of the exception a failed generation call raised.
gen_message(o) == IF o = "oom" THEN "CUDA out of memory" ELSE GenError

\* generate_voice_clone may also raise a ValueError of its own, which
\* clone_voice passes on as it is (`except ValueError: raise`).
CloneOutcomes == GenOutcomes \cup {"value_error"}
GenValueError == "bad reference audio"

NoRet == [kind |-> "pending", msg |-> ""]
Ok == [kind |-> "ok", msg |-> ""]
Raise(kind, msg) == [kind |-> kind, msg |-> msg]

Text(body, lang) == [body |-> body, lang |-> lang]

NoReq ==
    [op |-> "none", text |-> <<>>, language |-> "en", audio |-> "",
     voice_id |-> None, speaker_audio |-> None, ref_text |-> None,
     src |-> "en", tgt |-> "en", name |-> "", description |-> "",
     new_name |-> None, new_description |-> None]

NoLoc ==
    [tmp_path |-> None, speaker_audio |-> "", text |-> Text(<<>>, "en"),
     language |-> "", speaker_label |-> "", early |-> FALSE]

NoCalls ==
    [validate |-> 0, asr |-> 0, translate |-> 0, tts |-> 0, tts_failed |-> 0, body |-> 0]

\* ---- service.py, gcs_loader.py: where a model is loaded from
\* A path is the sequence of its components: os.path.join appends, and the
\* prefix "models/Base/" is <<"models", "Base", "">>.
join(a, b) == a \o b

\* p.rstrip("/"): the empty components at the end are dropped.
RECURSIVE rstrip(_)
rstrip(p) ==
    IF p # <<>> /\ p[Len(p)] = "" THEN rstrip(SubSeq(p, 1, Len(p) - 1)) ELSE p

MODEL_CACHE_DIR == <<"", "app", "models">>
CUSTOM_VOICE_MODEL == <<"Qwen", "Qwen3-TTS-12Hz-1.7B-CustomVoice">>
BASE_MODEL == <<"Qwen", "Qwen3-TTS-12Hz-1.7B-Base">>

\* GCS_MODEL_BUCKET: unset (the empty string) or the name of a bucket.
Buckets == {"", "models-bucket"}

\* What the bucket does to a download: every blob arrives, or the listing is
\* empty, a blob cannot be fetched or the client cannot be built; or
\* `from gcs_loader import download_model_from_gcs` raises ImportError
\* (google-cloud-storage is not installed) and the downloader is not called.
DownloadOutcomes == {"ok", "failed", "import_error"}

\* download_model_from_gcs with the markers mk on disk: whether it raised, the
\* path it returned and the markers afterwards.
download_model_from_gcs(bucket_name, model_prefix, local_dir, mk, outcome) ==
    LET local_path == join(local_dir, rstrip(model_prefix))
    IN  IF local_path \in mk
        THEN [raised |-> FALSE, path |-> local_path, markers |-> mk]
        ELSE IF outcome = "ok"
             THEN [raised |-> FALSE, path |-> local_path, markers |-> mk \cup {local_path}]
             ELSE [raised |-> TRUE, path |-> <<>>, markers |-> mk]

\* _resolve_model_path: the path it returns, the step that gave it, whether
\* the downloader was called, and the markers afterwards.
_resolve_model_path(hf_model_id, gcs_prefix, cache_dir, bucket_name, mk, outcome) ==
    LET local_path == join(cache_dir, <<gcs_prefix>>)
        d == download_model_from_gcs(bucket_name, <<"models", gcs_prefix, "">>,
                                     cache_dir, mk, outcome)
    IN  IF local_path \in mk
        THEN [step |-> "cache", path |-> local_path, called |-> FALSE, markers |-> mk]
        ELSE IF bucket_name # ""
             THEN IF outcome = "import_error"
                  THEN [step |-> "registry", path |-> hf_model_id, called |-> FALSE,
                        markers |-> mk]
                  ELSE IF d.raised
                  THEN [step |-> "registry", path |-> hf_model_id, called |-> TRUE,
                        markers |-> d.markers]
                  ELSE [step |-> "download", path |-> d.path, called |-> TRUE,
                        markers |-> d.markers]
             ELSE [step |-> "registry", path |-> hf_model_id, called |-> FALSE,
                   markers |-> mk]

\* The record of a resolution: its result, the path a download of the model
\* had returned before it (had) and has returned by now (downloaded).
NoResolution ==
    [step |-> "none", path |-> <<>>, called |-> FALSE, had |-> None, downloaded |-> None]

Resolution(r, before) ==
    [step |-> r.step, path |-> r.path, called |-> r.called, had |-> before.downloaded,
     downloaded |-> IF r.step = "download" THEN Some(r.path) ELSE before.downloaded]

\* The two _resolve_model_path calls of initialize_models.
resolve_paths ==
    \E oc \in DownloadOutcomes, ob \in DownloadOutcomes :
       LET rc == _resolve_model_path(CUSTOM_VOICE_MODEL, "CustomVoice", MODEL_CACHE_DIR,
                                     gcs_bucket, markers, oc)
           rb == _resolve_model_path(BASE_MODEL, "Base", MODEL_CACHE_DIR,
                                     gcs_bucket, rc.markers, ob)
       IN  /\ markers' = rb.markers
           /\ resolved' = [resolved EXCEPT
                             !["CustomVoice"] = Resolution(rc, @),
                             !["Base"] = Resolution(rb, @)]
           /\ UNCHANGED gcs_bucket

InitSvc ==
    /\ custom_voice_model = 0
    /\ base_model = 0
    /\ custom_voice_model_loaded = FALSE
    /\ base_model_loaded = FALSE
    /\ init_error = None
    /\ model_lock = FALSE
    /\ constructed = [m \in Models |-> 0]
    /\ load_attempts = 0

InitTasks ==
    /\ running = None
    /\ pc = [t \in Tasks |-> IF t = 0 THEN "ready" ELSE "idle"]
    /\ req = [t \in Tasks |-> IF t = 0 THEN [NoReq EXCEPT !.op = "startup"] ELSE NoReq]
    /\ ret = [t \in Tasks |-> NoRet]
    /\ path = [t \in Tasks |-> "none"]
    /\ used_model = [t \in Tasks |-> 0]
    /\ calls = [t \in Tasks |-> NoCalls]
    /\ loc = [t \in Tasks |-> NoLoc]

\* TranslationProvider.__init__: nothing is known about either backend.
NoProvider == [argos |-> None, deep |-> None]

\* No call of translate was made.
NoTranslation ==
    [text |-> Text(<<>>, "en"), source |-> "en", target |-> "en", oa |-> "none",
     od |-> "none", before |-> NoProvider, ret |-> Text(<<>>, "en"),
     argos |-> "not called", deep |-> "not called"]

NoValidation ==
    [data |-> <<>>, fmt |-> "", called |-> FALSE, raised |-> FALSE, msg |-> "",
     created |-> {}, left |-> {}]

\* XTTSService.__init__ and the module globals of xtts-service/main.py.
NoXttsCall ==
    [called |-> FALSE, speaker_wav |-> None, loaded_before |-> FALSE,
     handle_before |-> 0, init_called |-> FALSE, init_raised |-> FALSE,
     code |-> 0, detail |-> "", created |-> {}, left |-> {},
     tts_invoked |-> FALSE, tts_handle |-> 0]

InitXtts ==
    /\ tts_model = 0
    /\ xtts_service = [model |-> 0, model_loaded |-> FALSE]
    /\ xtts_log = [attempts |-> 0, constructed |-> 0, task |-> "pending"]
    /\ xtts_call = NoXttsCall

InitFs ==
    /\ validated = NoValidation
    /\ InitXtts
    /\ tmp_files = {}
    /\ created = [t \in Tasks |-> {}]
    /\ markers = {}
    /\ gcs_bucket = ""
    /\ resolved = [m \in Models |-> NoResolution]
    /\ provider = NoProvider
    /\ translated = NoTranslation

InitStream ==
    /\ sentences = [t \in Tasks |-> <<>>]
    /\ loop_i = [t \in Tasks |-> 0]
    /\ sequence = [t \in Tasks |-> 0]
    /\ chunks = [t \in Tasks |-> <<>>]

Init == InitLib /\ InitSvc /\ InitTasks /\ InitFs /\ InitStream

ModelOf(p) == IF p = "clone" THEN "Base" ELSE "CustomVoice"
Loaded(m) == IF m = "Base" THEN base_model_loaded ELSE custom_voice_model_loaded
Handle(m) == IF m = "Base" THEN base_model ELSE custom_voice_model

StreamChunk(chunk, sequence_number, is_last, error) ==
    [chunk |-> chunk, sequence_number |-> sequence_number, is_last |-> is_last,
     error |-> error]

\* The task's call ends: it returns or raises r and leaves the loop.
Finish(t, r) ==
    /\ pc' = [pc EXCEPT ![t] = "done"]
    /\ ret' = [ret EXCEPT ![t] = r]
    /\ running' = None

\* initialize_models returns to its caller: the startup task is over, a
\* service method goes on after its await.
init_return(t) ==
    IF req[t].op = "startup"
    THEN Finish(t, Ok)
    ELSE /\ pc' = [pc EXCEPT ![t] = "post_init"]
         /\ running' = Some(t)
         /\ UNCHANGED ret

\* The early return of initialize_models.
both_loaded_mut == FALSE

both_loaded == custom_voice_model_loaded /\ base_model_loaded

\* initialize_models up to the try: the lock is free whenever a task is
\* scheduled (it is only held between two steps of the task that occupies the
\* loop), so the acquisition never suspends.
begin_initialize(t) ==
    /\ ~model_lock
    /\ IF both_loaded
       THEN init_return(t) /\ UNCHANGED svcVars
       ELSE /\ model_lock' = TRUE
            /\ load_attempts' = load_attempts + 1
            /\ pc' = [pc EXCEPT ![t] = "init_custom"]
            /\ running' = Some(t)
            /\ UNCHANGED <<ret, custom_voice_model, base_model, custom_voice_model_loaded,
                           base_model_loaded, init_error, constructed>>

\* _safe_model_init: the task startup_event creates.
Startup ==
    /\ running = None
    /\ pc[0] = "ready"
    /\ begin_initialize(0)
    /\ UNCHANGED <<req, path, used_model, calls, loc, libVars, fsVars, streamVars>>

\* The import, the path resolution and the CustomVoice from_pretrained; what
\* fails is the import, before the paths are resolved, or a later statement.
InitLoadCustom(t) ==
    /\ running = Some(t)
    /\ pc[t] = "init_custom"
    /\ \E o \in InitOutcomes :
          IF o.ok
          THEN /\ custom_voice_model' = constructed["CustomVoice"] + 1
               /\ custom_voice_model_loaded' = TRUE
               /\ constructed' = [constructed EXCEPT !["CustomVoice"] = @ + 1]
               /\ pc' = [pc EXCEPT ![t] = "init_base"]
               /\ resolve_paths
               /\ UNCHANGED <<init_error, model_lock, running, ret>>
          ELSE /\ init_error' = Some(o.msg)
               /\ model_lock' = FALSE
               /\ init_return(t)
               /\ resolve_paths \/ UNCHANGED cacheVars
               /\ UNCHANGED <<custom_voice_model, custom_voice_model_loaded, constructed>>
    /\ UNCHANGED <<base_model, base_model_loaded, load_attempts>>
    /\ UNCHANGED <<req, path, used_model, calls, loc, libVars, tmp_files, created,
                   streamVars, extVars>>

\* The Base from_pretrained and the end of the locked block.
InitLoadBase(t) ==
    /\ running = Some(t)
    /\ pc[t] = "init_base"
    /\ \E o \in InitOutcomes :
          IF o.ok
          THEN /\ base_model' = constructed["Base"] + 1
               /\ base_model_loaded' = TRUE
               /\ constructed' = [constructed EXCEPT !["Base"] = @ + 1]
               /\ UNCHANGED init_error
          ELSE /\ init_error' = Some(o.msg)
               /\ UNCHANGED <<base_model, base_model_loaded, constructed>>
    /\ model_lock' = FALSE
    /\ init_return(t)
    /\ UNCHANGED <<custom_voice_model, custom_voice_model_loaded, load_attempts>>
    /\ UNCHANGED <<req, path, used_model, calls, loc, libVars, fsVars, streamVars>>

\* A service method cannot go on: synthesize and clone_voice raise
\* RuntimeError, synthesize_stream yields one error chunk and returns.
model_unavailable(t, p, msg) ==
    IF p = "stream"
    THEN /\ chunks' = [chunks EXCEPT ![t] = <<StreamChunk(<<>>, 0, TRUE, Some(msg))>>]
         /\ Finish(t, Ok)
    ELSE /\ Finish(t, Raise("RuntimeError", msg))
         /\ UNCHANGED chunks

\* `if self.init_error:` of the three service methods.
error_recorded_mut == FALSE

error_recorded == Truthy(init_error)

\* The head of synthesize (p = "synth"), clone_voice ("clone") and
\* synthesize_stream ("stream"): go on when the model is loaded, fail on a
\* recorded error, else await initialize_models.
require_model(t, p) ==
    /\ path' = [path EXCEPT ![t] = p]
    /\ IF Loaded(ModelOf(p))
       THEN /\ pc' = [pc EXCEPT ![t] = "body"]
            /\ running' = Some(t)
            /\ UNCHANGED <<ret, chunks, svcVars>>
       ELSE IF error_recorded
            THEN /\ model_unavailable(t, p, IF p = "stream" THEN "Model init failed"
                                                ELSE "Model initialization failed")
                 /\ UNCHANGED svcVars
            ELSE begin_initialize(t) /\ UNCHANGED chunks

\* A service method that goes on to generate after the await without looking
\* at the flag.
post_init_unchecked_mut(t) ==
    /\ running = Some(t)
    /\ pc[t] = "post_init"
    /\ pc' = [pc EXCEPT ![t] = "body"]
    /\ UNCHANGED <<running, ret, chunks>>
    /\ UNCHANGED <<req, path, used_model, calls, loc, svcVars, libVars, fsVars,
                   sentences, loop_i, sequence>>

\* The check after `await self.initialize_models()`.
PostInit(t) ==
    /\ running = Some(t)
    /\ pc[t] = "post_init"
    /\ IF Loaded(ModelOf(path[t]))
       THEN /\ pc' = [pc EXCEPT ![t] = "body"]
            /\ UNCHANGED <<running, ret, chunks>>
       ELSE model_unavailable(t, path[t], "Model not available")
    /\ UNCHANGED <<req, path, used_model, calls, loc, svcVars, libVars, fsVars,
                   sentences, loop_i, sequence>>

-----------------------------------------------------------------------------
(***************************************************************************)
(* service.py: synthesize, clone_voice, synthesize_stream                  *)
(***************************************************************************)

LANGUAGE_MAP ==
    [zh |-> "Chinese", en |-> "English", ja |-> "Japanese", ko |-> "Korean",
     de |-> "German", fr |-> "French", ru |-> "Russian", pt |-> "Portuguese",
     es |-> "Spanish", it |-> "Italian", ur |-> "English", ar |-> "English",
     hi |-> "English"]

_to_language_name(code) ==
    IF code \in DOMAIN LANGUAGE_MAP THEN LANGUAGE_MAP[code] ELSE "Auto"

\* synthesize(request): text and language are what the model is handed.
enter_synthesize(t, text, code) ==
    /\ loc' = [loc EXCEPT ![t].text = text, ![t].language = _to_language_name(code)]
    /\ require_model(t, "synth")

\* clone_voice(request)
enter_clone_voice(t, text, speaker_audio, code) ==
    /\ loc' = [loc EXCEPT ![t].text = text, ![t].speaker_audio = speaker_audio,
                          ![t].language = _to_language_name(code)]
    /\ require_model(t, "clone")

\* synthesize after its model check: one blocking generate_custom_voice call.
SynthBody(t) ==
    /\ running = Some(t)
    /\ pc[t] = "body"
    /\ path[t] = "synth"
    /\ calls' = [calls EXCEPT ![t].tts = @ + 1]
    /\ used_model' = [used_model EXCEPT ![t] = custom_voice_model]
    /\ \E o \in GenOutcomes :
          Finish(t, CASE o = "ok" -> Ok
                      [] o = "oom" -> Raise("OutOfMemoryError", "CUDA out of memory")
                      [] OTHER -> Raise("RuntimeError", "Synthesis failed"))
    /\ UNCHANGED <<req, path, loc, svcVars, libVars, fsVars, streamVars>>

\* clone_voice after its model check: the try block and its finally.
CloneBody(t) ==
    /\ running = Some(t)
    /\ pc[t] = "body"
    /\ path[t] = "clone"
    /\ \E write_ok \in BOOLEAN, o \in CloneOutcomes :
          LET v == validate_audio_sample(loc[t].speaker_audio, write_ok, t, 2)
          IN  /\ created' = [created EXCEPT ![t] = @ \cup v.created]
              /\ IF v.raised
                 THEN /\ tmp_files' = tmp_files \cup v.left
                      /\ calls' = [calls EXCEPT ![t].validate = @ + 1]
                      /\ UNCHANGED used_model
                      /\ Finish(t, Raise("ValueError", v.msg))
                 ELSE /\ tmp_files' = (tmp_files \cup v.left) \ {v.path[1]}
                      /\ calls' = [calls EXCEPT ![t].validate = @ + 1, ![t].tts = @ + 1]
                      /\ used_model' = [used_model EXCEPT ![t] = base_model]
                      /\ Finish(t, CASE o = "ok" -> Ok
                                     [] o = "oom" -> Raise("OutOfMemoryError",
                                                           "CUDA out of memory")
                                     [] o = "value_error" ->
                                           Raise("ValueError", GenValueError)
                                     [] OTHER -> Raise("RuntimeError",
                                                       "Voice cloning failed"))
    /\ UNCHANGED <<req, path, loc, svcVars, libVars, streamVars, cacheVars, extVars>>

\* ---- _split_sentences
\* [.!?] and the three CJK marks of the pattern, and the characters that \s
\* matches and str.strip() removes: the white space of Unicode.
Punctuation == {".", "!", "?", "U+3002", "U+FF01", "U+FF1F"}
Whitespace ==
    {" ", "\t", "\n", "\r", "\f", "U+000B", "U+001C", "U+001D", "U+001E", "U+001F",
     "U+0085", "U+00A0", "U+1680", "U+2000", "U+2001", "U+2002", "U+2003", "U+2004",
     "U+2005", "U+2006", "U+2007", "U+2008", "U+2009", "U+200A", "U+2028", "U+2029",
     "U+202F", "U+205F", "U+3000"}

\* s.strip() is not empty
NonBlank(s) == \E i \in 1..Len(s) : s[i] \notin Whitespace

\* re.split(r'(?<=[.!?])\s*', text): a part ends after a punctuation mark, and the
\* white space that follows the mark belongs to no part.  cur is the part being
\* read, skipping says that a mark has just ended a part.
RECURSIVE re_split(_, _, _)
re_split(text, cur, skipping) ==
    IF text = <<>> THEN <<cur>>
    ELSE LET c == Head(text)
         IN  IF skipping /\ c \in Whitespace THEN re_split(Tail(text), cur, TRUE)
             ELSE IF c \in Punctuation
                  THEN <<Append(cur, c)>> \o re_split(Tail(text), <<>>, TRUE)
                  ELSE re_split(Tail(text), Append(cur, c), FALSE)

_split_sentences(text) == SelectSeq(re_split(text, <<>>, FALSE), NonBlank)

\* The payload of a chunk: "" is the empty sequence, the encoded audio of a
\* sentence is written as the sentence it was generated from.
EmptyPayload == <<>>

is_last_mut(i, n) == FALSE

error_chunk_mut(seq, e) == StreamChunk(EmptyPayload, 0, TRUE, Some(e))

\* The chunk of the except block.
error_chunk(seq, e) == StreamChunk(EmptyPayload, seq, TRUE, Some(e))

after_loop_mut(seq, cs) == cs

\* `if sequence == 0: yield StreamChunk(chunk="", sequence_number=0, is_last=True)`
after_loop(seq, cs) ==
    IF seq = 0 THEN Append(cs, StreamChunk(EmptyPayload, 0, TRUE, None)) ELSE cs

\* is_last = (i == len(sentences) - 1)
is_last_of(i, n) == i = n - 1

\* synthesize_stream after its model check, up to the for loop.
StreamBody(t) ==
    /\ running = Some(t)
    /\ pc[t] = "body"
    /\ path[t] = "stream"
    /\ sentences' = [sentences EXCEPT ![t] = _split_sentences(req[t].text)]
    /\ loop_i' = [loop_i EXCEPT ![t] = 0]
    /\ sequence' = [sequence EXCEPT ![t] = 0]
    /\ pc' = [pc EXCEPT ![t] = "stream_loop"]
    /\ calls' = [calls EXCEPT ![t].body = 1]
    /\ UNCHANGED <<running, req, ret, path, used_model, loc, chunks,
                   svcVars, libVars, fsVars>>

\* One pass of the for loop up to its yield, or the code after the loop.  A
\* yield suspends the generator; after the error chunk and after the empty
\* final chunk nothing is left to run.
StreamLoop(t) ==
    /\ running = Some(t)
    /\ pc[t] = "stream_loop"
    /\ LET n == Len(sentences[t])
           i == loop_i[t]
       IN  IF i < n
           THEN IF ~NonBlank(sentences[t][i + 1])
                THEN /\ loop_i' = [loop_i EXCEPT ![t] = i + 1]
                     /\ UNCHANGED <<running, pc, ret, chunks, calls, used_model>>
                ELSE /\ used_model' = [used_model EXCEPT ![t] = custom_voice_model]
                     /\ UNCHANGED loop_i
                     /\ \E o \in GenOutcomes :
                           IF o = "ok"
                           THEN /\ chunks' = [chunks EXCEPT ![t] =
                                       Append(@, StreamChunk(sentences[t][i + 1],
                                                 sequence[t], is_last_of(i, n), None))]
                                /\ calls' = [calls EXCEPT ![t].tts = @ + 1]
                                /\ pc' = [pc EXCEPT ![t] = "yielded"]
                                /\ running' = None
                                /\ UNCHANGED ret
                           ELSE /\ chunks' = [chunks EXCEPT ![t] =
                                       Append(@, error_chunk(sequence[t],
                                                             gen_message(o)))]
                                /\ calls' = [calls EXCEPT ![t].tts = @ + 1,
                                                          ![t].tts_failed = @ + 1]
                                /\ Finish(t, Ok)
           ELSE /\ chunks' = [chunks EXCEPT ![t] = after_loop(sequence[t], @)]
                /\ Finish(t, Ok)
                /\ UNCHANGED <<loop_i, calls, used_model>>
    /\ UNCHANGED <<req, path, loc, sentences, sequence, svcVars, libVars, fsVars>>

\* The consumer asks for the next chunk: the generator goes on after its yield.
StreamResume(t) ==
    /\ running = None
    /\ pc[t] = "yielded"
    /\ sequence' = [sequence EXCEPT ![t] = @ + 1]
    /\ loop_i' = [loop_i EXCEPT ![t] = @ + 1]
    /\ pc' = [pc EXCEPT ![t] = "stream_loop"]
    /\ running' = Some(t)
    /\ UNCHANGED <<req, ret, path, used_model, calls, loc, sentences, chunks,
                   svcVars, libVars, fsVars>>

-----------------------------------------------------------------------------
(***************************************************************************)
(* translation_provider.py and the pipelines of service.py                 *)
(***************************************************************************)

NATIVE_LANGUAGES == {"zh", "en", "ja", "ko", "de", "fr", "ru", "pt", "es", "it"}
EXTENDED_LANGUAGE_BRIDGE == [ur |-> "en", ar |-> "en", hi |-> "en"]

is_native(lang_code) == lang_code \in NATIVE_LANGUAGES

get_bridge_language(lang_code) ==
    IF lang_code \in DOMAIN EXTENDED_LANGUAGE_BRIDGE
    THEN EXTENDED_LANGUAGE_BRIDGE[lang_code]
    ELSE "en"

\* ---- translation_provider.py in full: the two backends and what the
\* provider remembers of them
\* bool(s) of an Optional[str] that holds a Text.
HasText(o) == o # None /\ o[1].body # <<>>

\* What argos-translate does to a call: the import fails, something raises
\* before a translation is found, no translation exists for the pair even
\* after the install attempt, translation.translate raises (after the flag
\* was set), or it returns a string, empty or not.
ArgosOutcomes == {"import_error", "error", "no_pair", "translate_error", "empty", "text"}

\* What deep-translator does: the import fails, something raises, or
\* GoogleTranslator.translate returns None, an empty string or a text.
DeepOutcomes == {"import_error", "error", "none", "empty", "text"}

\* What a backend that returns a string makes of text.
BackendResult(text, target, o) ==
    IF o = "text" THEN Some(Text(text.body, target))
    ELSE IF o = "empty" THEN Some(Text(<<>>, target))
    ELSE None

\* _try_argos: what it returns, the flag afterwards, whether the backend was
\* asked.
_try_argos(available, text, source, target, o) ==
    IF available = Some(FALSE)
    THEN [ret |-> None, available |-> available, asked |-> FALSE]
    ELSE [ret |-> BackendResult(text, target, o),
          available |-> IF o = "import_error" THEN Some(FALSE)
                        ELSE IF o \in {"translate_error", "empty", "text"} THEN Some(TRUE)
                        ELSE available,
          asked |-> TRUE]

_try_deep_translator(available, text, source, target, o) ==
    IF available = Some(FALSE)
    THEN [ret |-> None, available |-> available, asked |-> FALSE]
    ELSE [ret |-> BackendResult(text, target, o),
          available |-> IF o = "import_error" THEN Some(FALSE)
                        ELSE IF o \in {"none", "empty", "text"} THEN Some(TRUE)
                        ELSE available,
          asked |-> TRUE]

\* A backend method that was called: it asked its backend, or returned at
\* once because the import had failed before.
Asked(r) == IF r.asked THEN "asked" ELSE "skipped"

deep_first_mut(p, text, source_lang, target_lang, oa, od) ==
    LET d == _try_deep_translator(p.deep, text, source_lang, target_lang, od)
        a == _try_argos(p.argos, text, source_lang, target_lang, oa)
    IN  IF source_lang = target_lang
        THEN [ret |-> text, provider |-> p, argos |-> "not called", deep |-> "not called"]
        ELSE IF HasText(d.ret)
             THEN [ret |-> d.ret[1], provider |-> [p EXCEPT !.deep = d.available],
                   argos |-> "not called", deep |-> Asked(d)]
             ELSE [ret |-> IF HasText(a.ret) THEN a.ret[1] ELSE text,
                   provider |-> [argos |-> a.available, deep |-> d.available],
                   argos |-> Asked(a), deep |-> Asked(d)]

\* translate on a provider in state p: what it returns, the provider
\* afterwards, and which of _try_argos and _try_deep_translator it called.
translate(p, text, source_lang, target_lang, oa, od) ==
    LET a == _try_argos(p.argos, text, source_lang, target_lang, oa)
        d == _try_deep_translator(p.deep, text, source_lang, target_lang, od)
    IN  IF source_lang = target_lang
        THEN [ret |-> text, provider |-> p, argos |-> "not called", deep |-> "not called"]
        ELSE IF HasText(a.ret)
             THEN [ret |-> a.ret[1], provider |-> [p EXCEPT !.argos = a.available],
                   argos |-> Asked(a), deep |-> "not called"]
             ELSE [ret |-> IF HasText(d.ret) THEN d.ret[1] ELSE text,
                   provider |-> [argos |-> a.available, deep |-> d.available],
                   argos |-> Asked(a), deep |-> Asked(d)]

\* What leaves _transcribe when it fails: the RuntimeError it makes of an
\* ImportError, or whatever else faster-whisper raised, as it is.
AsrFailures ==
    {Raise("RuntimeError", "faster-whisper is required for audio-to-audio. Install it with: pip install faster-whisper"),
     Raise("ValueError", "Requested float16 compute type, but the target device or backend do not support efficient float16 computation."),
     Raise("OSError", "model.bin not found")}

\* What _transcribe returns or raises: the detected language and the text.
AsrOutcomes ==
    {[ok |-> TRUE, lang |-> l, text |-> x, raised |-> NoRet] :
        l \in {"en", "ur"}, x \in {<<"a", ".">>, <<>>}}
        \cup {[ok |-> FALSE, lang |-> "", text |-> <<>>, raised |-> r] : r \in AsrFailures}

\* text: str = Field(..., min_length=1, max_length=2000) of SynthesizeRequest
\* and CloneRequest.
text_valid(text) == Len(text.body) >= 1 /\ Len(text.body) <= 2000

\* The call of task t raises r before it reaches a service method.
fail(t, r) ==
    /\ Finish(t, r)
    /\ UNCHANGED <<path, loc, chunks, svcVars>>

\* The tail of translate_and_synthesize and of audio_to_audio: the synthesis
\* language, the voice lookup, the request object, and the call of clone_voice
\* or synthesize up to its first suspension.
voice_stage(t, text, tgt) ==
    LET synth_lang_code == IF is_native(tgt) THEN tgt ELSE get_bridge_language(tgt)
    IN  IF Truthy(req[t].voice_id)
        THEN LET voice == get_voice(voices, req[t].voice_id[1])
             IN  IF voice = None
                 THEN fail(t, Raise("ValueError", "Voice not found in library"))
                 ELSE IF ~text_valid(text)
                      THEN fail(t, Raise("ValueError", "validation error for CloneRequest"))
                      ELSE enter_clone_voice(t, text, voice[1].ref_audio_b64,
                                             synth_lang_code)
        ELSE IF ~text_valid(text)
             THEN fail(t, Raise("ValueError", "validation error for SynthesizeRequest"))
             ELSE enter_synthesize(t, text, synth_lang_code)

\* The translation is handed to the executor and the coroutine suspends.
start_translate(t, text) ==
    /\ calls' = [calls EXCEPT ![t].translate = @ + 1]
    /\ loc' = [loc EXCEPT ![t].text = text]
    /\ pc' = [pc EXCEPT ![t] = "translating"]
    /\ UNCHANGED <<running, ret, path, chunks, svcVars>>

EnterTranslateSynthesize(t) ==
    /\ running = None
    /\ pc[t] = "ready"
    /\ req[t].op = "translate_and_synthesize"
    /\ LET original_text == Text(req[t].text, req[t].src)
       IN  IF req[t].src # req[t].tgt
           THEN start_translate(t, original_text)
           ELSE voice_stage(t, original_text, req[t].tgt) /\ UNCHANGED calls
    /\ UNCHANGED <<req, used_model, libVars, fsVars, sentences, loop_i, sequence>>

\* The executor thread runs translation_provider.translate while the coroutine
\* is suspended in run_in_executor: it sets the availability flags of the
\* provider and leaves the result for the coroutine.  The thread does not wait
\* for the event loop, so the step needs no turn of the loop.
TranslateInExecutor(t) ==
    /\ pc[t] = "translating"
    /\ \E oa \in ArgosOutcomes, od \in DeepOutcomes :
          LET r == translate(provider, loc[t].text, loc[t].text.lang, req[t].tgt, oa, od)
          IN  /\ provider' = r.provider
              /\ loc' = [loc EXCEPT ![t].text = r.ret]
    /\ pc' = [pc EXCEPT ![t] = "translated"]
    /\ UNCHANGED <<running, req, ret, path, used_model, calls, chunks, svcVars, libVars,
                   tmp_files, created, cacheVars, translated, validated, xttsVars,
                   sentences, loop_i, sequence>>

\* The coroutine resumes with the translated text: both pipelines go on to the
\* voice.
Translated(t) ==
    /\ running = None
    /\ pc[t] = "translated"
    /\ voice_stage(t, loc[t].text, req[t].tgt)
    /\ UNCHANGED <<req, used_model, calls, libVars, fsVars, sentences, loop_i, sequence>>

\* `tmp_path, _ = self.validate_audio_sample(request.audio)` and the hand-over
\* of _transcribe to the executor.
begin_transcribe(t) ==
    \E write_ok \in BOOLEAN :
       LET v == validate_audio_sample(req[t].audio, write_ok, t, 1)
       IN  /\ created' = [created EXCEPT ![t] = @ \cup v.created]
           /\ tmp_files' = tmp_files \cup v.left
           /\ UNCHANGED <<cacheVars, extVars>>
           /\ IF v.raised
              THEN /\ calls' = [calls EXCEPT ![t].validate = @ + 1]
                   /\ Finish(t, Raise("ValueError", v.msg))
                   /\ UNCHANGED loc
              ELSE /\ calls' = [calls EXCEPT ![t].validate = @ + 1, ![t].asr = @ + 1]
                   /\ loc' = [loc EXCEPT ![t].tmp_path = v.path]
                   /\ pc' = [pc EXCEPT ![t] = "asr"]
                   /\ UNCHANGED <<running, ret>>

EnterAudioToAudio(t) ==
    /\ running = None
    /\ pc[t] = "ready"
    /\ req[t].op = "audio_to_audio"
    /\ begin_transcribe(t)
    /\ UNCHANGED <<req, path, used_model, chunks, svcVars, libVars, sentences, loop_i,
                   sequence>>

\* The executor is done with _transcribe in audio_to_audio: the finally, the
\* translation when the detected language is not the target, else the voice.
A2ATranscribed(t) ==
    /\ running = None
    /\ pc[t] = "asr"
    /\ req[t].op = "audio_to_audio"
    /\ tmp_files' = tmp_files \ {loc[t].tmp_path[1]}
    /\ \E o \in AsrOutcomes :
          IF ~o.ok
          THEN fail(t, o.raised) /\ UNCHANGED calls
          ELSE IF o.lang # req[t].tgt
               THEN start_translate(t, Text(o.text, o.lang))
               ELSE voice_stage(t, Text(o.text, o.lang), req[t].tgt) /\ UNCHANGED calls
    /\ UNCHANGED <<req, used_model, created, libVars, sentences, loop_i, sequence,
                   cacheVars, extVars>>

no_reference_mut(voice_id, speaker_audio) == FALSE

not_exactly_one_mut(voice_id, speaker_audio) == Truthy(voice_id) = Truthy(speaker_audio)

\* `not request.voice_id and not request.speaker_audio`
no_reference(voice_id, speaker_audio) == ~Truthy(voice_id) /\ ~Truthy(speaker_audio)

EnterCloneAudioToAudio(t) ==
    /\ running = None
    /\ pc[t] = "ready"
    /\ req[t].op = "clone_audio_to_audio"
    /\ IF no_reference(req[t].voice_id, req[t].speaker_audio)
       THEN /\ Finish(t, Raise("ValueError", "Provide either voice_id or speaker_audio"))
            /\ UNCHANGED <<calls, loc, fsVars>>
       ELSE begin_transcribe(t)
    /\ UNCHANGED <<req, path, used_model, chunks, svcVars, libVars, sentences, loop_i,
                   sequence>>

\* The executor is done with _transcribe in clone_audio_to_audio: the finally,
\* the synthesis language, the reference audio, and the call of clone_voice.
CloneA2ATranscribed(t) ==
    /\ running = None
    /\ pc[t] = "asr"
    /\ req[t].op = "clone_audio_to_audio"
    /\ tmp_files' = tmp_files \ {loc[t].tmp_path[1]}
    /\ \E o \in AsrOutcomes :
          LET synth_lang == IF is_native(o.lang) THEN o.lang ELSE "en"
              text == Text(o.text, o.lang)
              voice == IF Truthy(req[t].voice_id)
                       THEN get_voice(voices, req[t].voice_id[1]) ELSE None
              ref_audio == IF Truthy(req[t].voice_id)
                           THEN Some(voice[1].ref_audio_b64) ELSE req[t].speaker_audio
          IN  IF ~o.ok
              THEN fail(t, o.raised)
              ELSE IF Truthy(req[t].voice_id) /\ voice = None
                   THEN fail(t, Raise("ValueError", "Voice not found in library"))
                   ELSE IF ~text_valid(text) \/ ref_audio = None
                        THEN fail(t, Raise("ValueError",
                                           "validation error for CloneRequest"))
                        ELSE enter_clone_voice(t, text, ref_audio[1], synth_lang)
    /\ UNCHANGED <<req, used_model, calls, created, libVars, sentences, loop_i, sequence,
                   cacheVars, extVars>>

SynthesizeWithLibraryVoice(t) ==
    /\ running = None
    /\ pc[t] = "ready"
    /\ req[t].op = "synthesize_with_library_voice"
    /\ LET voice == get_voice(voices, req[t].voice_id[1])
           language == req[t].language
           synth_lang == IF is_native(language) THEN language
                         ELSE get_bridge_language(language)
       IN  IF voice = None
           THEN fail(t, Raise("ValueError", "Voice not found in library"))
           ELSE IF ~text_valid(Text(req[t].text, language))
                THEN fail(t, Raise("ValueError", "validation error for CloneRequest"))
                ELSE enter_clone_voice(t, Text(req[t].text, language),
                                       voice[1].ref_audio_b64, synth_lang)
    /\ UNCHANGED <<req, used_model, calls, libVars, fsVars, sentences, loop_i, sequence>>

\* POST /voices of main.py: validate the sample, unlink the file, add the voice.
PostVoices(t) ==
    /\ running = None
    /\ pc[t] = "ready"
    /\ req[t].op = "add_voice"
    /\ \E write_ok \in BOOLEAN, ts \in Timestamps, o \in SaveOutcomes :
          LET v == validate_audio_sample(req[t].audio, write_ok, t, 1)
          IN  /\ created' = [created EXCEPT ![t] = @ \cup v.created]
              /\ calls' = [calls EXCEPT ![t].validate = @ + 1]
              /\ IF v.raised
                 THEN /\ tmp_files' = tmp_files \cup v.left
                      /\ Finish(t, Raise("HTTPException 400", v.msg))
                      /\ UNCHANGED libVars
                 ELSE /\ tmp_files' = (tmp_files \cup v.left) \ {v.path[1]}
                      /\ add_voice([name |-> req[t].name, ref_audio_b64 |-> req[t].audio,
                                    description |-> req[t].description,
                                    ref_text |-> req[t].ref_text,
                                    language_hint |-> req[t].language], ts, o)
                      /\ Finish(t, Ok)
    /\ UNCHANGED <<req, path, used_model, loc, svcVars, streamVars, cacheVars, extVars>>

-----------------------------------------------------------------------------
(***************************************************************************)
(* The calls of the three service methods, issued and scheduled            *)
(***************************************************************************)

\* A call is issued: the coroutine exists and waits for the loop.  Calls are
\* numbered in the order in which they are issued.
issue(t, r) ==
    /\ pc[t] = "idle"
    /\ \A u \in 1..(t - 1) : pc[u] # "idle"
    /\ req' = [req EXCEPT ![t] = r]
    /\ pc' = [pc EXCEPT ![t] = "ready"]
    /\ loc' = [loc EXCEPT ![t].early =
                   ~custom_voice_model_loaded /\ ~base_model_loaded]
    /\ UNCHANGED <<running, ret, path, used_model, calls, svcVars, libVars, fsVars,
                   streamVars>>

SynthesizeRequest(text, language) ==
    [NoReq EXCEPT !.op = "synthesize", !.text = text, !.language = language]
StreamRequest(text, language) ==
    [NoReq EXCEPT !.op = "synthesize_stream", !.text = text, !.language = language]
CloneRequest(text, speaker_audio, language) ==
    [NoReq EXCEPT !.op = "clone_voice", !.text = text, !.language = language,
                  !.speaker_audio = Some(speaker_audio)]

Hello == <<"a", ".", "a">>

EnterSynthesize(t) ==
    /\ running = None
    /\ pc[t] = "ready"
    /\ req[t].op = "synthesize"
    /\ enter_synthesize(t, Text(req[t].text, req[t].language), req[t].language)
    /\ UNCHANGED <<req, used_model, calls, libVars, fsVars, sentences, loop_i, sequence>>

EnterCloneVoice(t) ==
    /\ running = None
    /\ pc[t] = "ready"
    /\ req[t].op = "clone_voice"
    /\ enter_clone_voice(t, Text(req[t].text, req[t].language),
                         req[t].speaker_audio[1], req[t].language)
    /\ UNCHANGED <<req, used_model, calls, libVars, fsVars, sentences, loop_i, sequence>>

EnterStream(t) ==
    /\ running = None
    /\ pc[t] = "ready"
    /\ req[t].op = "synthesize_stream"
    /\ require_model(t, "stream")
    /\ UNCHANGED <<req, used_model, calls, loc, libVars, fsVars, sentences, loop_i,
                   sequence>>

\* ---- main.py: what the HTTP layer answers to the outcome of a service call
\* torch.cuda.OutOfMemoryError is a RuntimeError: `except RuntimeError` catches it.
is_runtime_error(kind) == kind \in {"RuntimeError", "OutOfMemoryError"}

\* e.__cause__: the error that `raise RuntimeError(...) from e` wrapped, which is
\* never the out-of-memory error (that one is re-raised as it is); an error
\* that was not wrapped has no cause.
cause(r) ==
    IF r.kind = "RuntimeError" /\ r.msg \in {"Synthesis failed", "Voice cloning failed"}
    THEN "Exception"
    ELSE "None"

\* The endpoints that end in the service method op.
EndpointsOf(op) ==
    CASE op = "synthesize" -> {"/synthesize"}
      [] op = "clone_voice" -> {"/clone"}
      [] op = "synthesize_stream" -> {"/synthesize/stream"}
      [] op = "synthesize_with_library_voice" -> {"/voices/{voice_id}/synthesize"}
      [] op = "translate_and_synthesize" -> {"/translate-synthesize"}
      [] op = "audio_to_audio" -> {"/audio-to-audio"}
      [] op = "clone_audio_to_audio" ->
            {"/clone/audio-to-audio", "/voices/{voice_id}/audio-to-audio"}
      [] OTHER -> {}

HttpResponse(code, retry_after) == [code |-> code, retry_after |-> retry_after]

\* The except clauses of /synthesize and /clone, in their order.
oom_aware_response(endpoint, r) ==
    IF endpoint = "/clone" /\ r.kind = "ValueError" THEN HttpResponse(400, None)
    ELSE IF is_runtime_error(r.kind)
         THEN IF cause(r) = "OutOfMemoryError"
              THEN HttpResponse(503, Some("30"))
              ELSE HttpResponse(500, None)
         ELSE IF r.kind = "OutOfMemoryError"
              THEN HttpResponse(503, Some("30"))
              ELSE HttpResponse(500, None)

http_response(endpoint, r) ==
    IF r.kind = "ok" THEN HttpResponse(200, None)
    ELSE IF endpoint = "/synthesize/stream"
         THEN \* a StreamingResponse: an error is a chunk of the stream
              HttpResponse(200, None)
    ELSE IF endpoint \in {"/synthesize", "/clone"} THEN oom_aware_response(endpoint, r)
    ELSE IF r.kind = "ValueError"
         THEN IF endpoint = "/voices/{voice_id}/synthesize"
              THEN HttpResponse(404, None)
              ELSE HttpResponse(400, None)
         ELSE HttpResponse(500, None)

\* ---- SpecLib: the voice library on its own
NextLib == LibAdd \/ LibUpdate \/ LibDelete \/ LibGet \/ LibRestart

SpecLib == Init /\ [][NextLib]_vars

\* ---- SpecInit: the startup task and concurrent calls of the three methods
InitRequests ==
    {SynthesizeRequest(Hello, "en"), StreamRequest(Hello, "en"),
     CloneRequest(Hello, "wav-5s", "en")}

IssueInit(t) == \E r \in InitRequests : issue(t, r)

NextInit ==
    \/ Startup
    \/ \E t \in Tasks : InitLoadCustom(t) \/ InitLoadBase(t) \/ PostInit(t)
    \/ \E t \in RequestTasks :
          \/ IssueInit(t)
          \/ EnterSynthesize(t) \/ EnterCloneVoice(t) \/ EnterStream(t)
          \/ SynthBody(t) \/ CloneBody(t)
          \/ StreamBody(t) \/ StreamLoop(t) \/ StreamResume(t)

SpecInit == Init /\ [][NextInit]_vars

\* ---- SpecPipe: the startup task, a POST /voices call (task 1) and one call
\* of a pipeline, of clone_voice or of the library synthesis (task 2)
VoiceRequest(name, audio, description, ref_text, language_hint) ==
    [NoReq EXCEPT !.op = "add_voice", !.name = name, !.audio = audio,
                  !.description = description, !.ref_text = ref_text,
                  !.language = language_hint]
TranslateSynthesizeRequest(text, src, tgt, voice_id) ==
    [NoReq EXCEPT !.op = "translate_and_synthesize", !.text = text, !.src = src,
                  !.tgt = tgt, !.voice_id = voice_id]
AudioToAudioRequest(audio, tgt, voice_id) ==
    [NoReq EXCEPT !.op = "audio_to_audio", !.audio = audio, !.tgt = tgt,
                  !.voice_id = voice_id]
CloneAudioToAudioRequest(audio, voice_id, speaker_audio) ==
    [NoReq EXCEPT !.op = "clone_audio_to_audio", !.audio = audio,
                  !.voice_id = voice_id, !.speaker_audio = speaker_audio]
LibrarySynthesisRequest(text, voice_id, language) ==
    [NoReq EXCEPT !.op = "synthesize_with_library_voice", !.text = text,
                  !.voice_id = Some(voice_id), !.language = language]

VoiceRequests ==
    {VoiceRequest("alice", a, "", None, "en") :
        a \in {"wav-5s", "wav-2s", "m4a-5s", "m4a-from-file-fails", "m4a-export-fails",
               "m4a-unreadable", "not-base64"}}
        \cup {VoiceRequest("bob", "flac-3s", "studio", Some("hello there"), "ur")}

RequestVoiceIds == {None, Some(uuid4(1)), Some(UnknownId)}

PipeRequests ==
    {TranslateSynthesizeRequest(Hello, "en", tgt, v) :
        tgt \in {"en", "ur"}, v \in RequestVoiceIds}
    \cup {AudioToAudioRequest(a, "en", v) :
            a \in {"wav-5s", "wav-2s", "m4a-5s", "m4a-from-file-fails", "m4a-unreadable",
                   "not-base64"},
            v \in RequestVoiceIds}
    \cup {CloneAudioToAudioRequest(a, v, sa) :
            a \in {"wav-5s", "m4a-export-fails"},
            v \in RequestVoiceIds \cup {Some("")},
            sa \in {None, Some(""), Some("wav-5s"), Some("zeros"),
                    Some("m4a-from-file-fails")}}
    \cup {CloneRequest(Hello, a, "en") : a \in AudioNames}
    \cup {SynthesizeRequest(Hello, "en")}
    \cup {LibrarySynthesisRequest(Hello, v, "ur") : v \in {uuid4(1), UnknownId}}

IssueVoice == \E r \in VoiceRequests : issue(1, r)

IssuePipe == \E r \in PipeRequests : issue(2, r)

NextPipe ==
    \/ Startup
    \/ IssueVoice
    \/ IssuePipe
    \/ PostVoices(1)
    \/ \E t \in Tasks : InitLoadCustom(t) \/ InitLoadBase(t) \/ PostInit(t)
    \/ EnterTranslateSynthesize(2) \/ TranslateInExecutor(2) \/ Translated(2)
    \/ EnterAudioToAudio(2) \/ A2ATranscribed(2)
    \/ EnterCloneAudioToAudio(2) \/ CloneA2ATranscribed(2)
    \/ SynthesizeWithLibraryVoice(2)
    \/ EnterCloneVoice(2) \/ EnterSynthesize(2)
    \/ SynthBody(2) \/ CloneBody(2)

SpecPipe == Init /\ [][NextPipe]_vars

\* ---- SpecStream: one streaming call on any text, and the startup task
MaxTextLen == 3
Alphabet == {"a", ".", "?", " ", "U+000B"}
Texts == UNION {[1..k -> Alphabet] : k \in 0..MaxTextLen}

\* POST /synthesize/stream: the request model refuses a text that is not
\* text_valid before the handler runs, so no call is issued for it.
IssueStream ==
    \E text \in Texts :
       /\ text_valid(Text(text, "en"))
       /\ issue(1, StreamRequest(text, "en"))

NextStream ==
    \/ Startup
    \/ IssueStream
    \/ \E t \in Tasks : InitLoadCustom(t) \/ InitLoadBase(t) \/ PostInit(t)
    \/ EnterStream(1) \/ StreamBody(1) \/ StreamLoop(1) \/ StreamResume(1)

SpecStream == Init /\ [][NextStream]_vars

-----------------------------------------------------------------------------
(***************************************************************************)
(* Initialization of the models: C1, C2                                    *)
(***************************************************************************)

InInit == {t \in Tasks : pc[t] \in {"init_custom", "init_base"}}

Generated(t) == pc[t] = "done" /\ ret[t] = Ok /\ calls[t].tts > 0

\* C1: at most one task is inside the locked block of initialize_models, and it
\* is the task that holds the lock; once both models are loaded, no call loads
\* anything or starts another attempt; and as long as no attempt has failed,
\* there has been at most one attempt, each model has been constructed at most
\* once, and every call that generated audio did so on the model that one
\* attempt built.
C1_SingleLoad ==
    /\ [](/\ Cardinality(InInit) <= 1
          /\ model_lock <=> InInit # {}
          /\ InInit # {} => running \in {Some(t) : t \in InInit}
          /\ init_error = None =>
                /\ load_attempts <= 1
                /\ \A m \in Models : constructed[m] <= 1
                /\ \A t \in RequestTasks : Generated(t) => used_model[t] = 1)
    /\ [][both_loaded => /\ constructed' = constructed
                         /\ load_attempts' = load_attempts
                         /\ custom_voice_model' = custom_voice_model
                         /\ base_model' = base_model]_vars

\* Every caller was issued while no model was loaded, the startup task and all
\* callers are done, all of them generated audio, and one attempt was made.
C1_Witness ==
    /\ pc[0] = "done"
    /\ \A t \in RequestTasks : loc[t].early /\ Generated(t) /\ used_model[t] = 1
    /\ load_attempts = 1
    /\ both_loaded

PathOf(op) ==
    CASE op = "clone_voice" -> "clone"
      [] op = "synthesize_stream" -> "stream"
      [] OTHER -> "synth"

\* Task t starts its call in this step, after an attempt has failed and while
\* the model it needs is not loaded.
EntersAfterFailure(t) ==
    /\ pc[t] = "ready"
    /\ pc'[t] # "ready"
    /\ init_error # None
    /\ ~Loaded(ModelOf(PathOf(req[t].op)))

\* The call of task t has ended on the error an earlier attempt recorded.
FailedOnRecordedError(t) ==
    /\ pc[t] = "done"
    /\ \/ ret[t] = Raise("RuntimeError", "Model initialization failed")
       \/ chunks[t] = <<StreamChunk(<<>>, 0, TRUE, Some("Model init failed"))>>

\* C2, as stated: after a failed attempt, a call that needs a model that is not
\* loaded starts a new initialization attempt.
C2_Original ==
    [][\A t \in RequestTasks :
          EntersAfterFailure(t) => load_attempts' = load_attempts + 1]_vars

\* C2, amended: a failure recorded with a non-empty message is cached.  A later
\* call that needs a model that is not loaded ends on the recorded error and
\* starts no attempt; only when the recorded message is the empty string does
\* the call start a new attempt.
C2_FailureCached ==
    [][\A t \in RequestTasks :
          EntersAfterFailure(t) =>
             IF init_error[1] # ""
             THEN /\ load_attempts' = load_attempts
                  /\ constructed' = constructed
                  /\ FailedOnRecordedError(t)'
             ELSE load_attempts' = load_attempts + 1]_vars

\* A call has ended on the recorded error of the one attempt that was made.
C2_Witness ==
    /\ init_error = Some("load failed")
    /\ load_attempts = 1
    /\ \E t \in RequestTasks : FailedOnRecordedError(t)

-----------------------------------------------------------------------------
(***************************************************************************)
(* The voice library and its index file: C3, C4                            *)
(***************************************************************************)

FileHoldsMap == index_file = [state |-> "ok", data |-> json_dump(voices)]

\* C3: after every add_voice, update_voice or delete_voice call that mutates the
\* library, the index file holds exactly the entries of the map, whether or not
\* the file system accepted the write.  _save swallows the failed write, so the
\* call returns with the old or a truncated file: violated.
C3_LockStep == lib_last.mutated => FileHoldsMap

\* C4: when the last mutation wrote the index, a new VoiceLibrary built from the
\* file holds the same entries, all seven fields equal, as the map in memory.
C4_SurvivesRestart == last_save = "ok" => _load(index_file) = voices

\* A restart after two adds and an update: one entry has no ref_text, one has.
C4_Witness ==
    /\ lib_last.op = "restart"
    /\ last_save = "ok"
    /\ Len(voices) = 2
    /\ \E i \in 1..2 : voices[i].ref_text = None /\ voices[i].description = "studio"
    /\ \E i \in 1..2 : voices[i].ref_text # None

-----------------------------------------------------------------------------
(***************************************************************************)
(* synthesize_stream: C6, C7, C8                                           *)
(***************************************************************************)

\* The streaming call of task t ran its try block to the end of the stream.
StreamEnded(t) ==
    pc[t] = "done" /\ req[t].op = "synthesize_stream" /\ calls[t].body = 1

\* C6: N >= 1 sentences and no failed generation: N chunks, the k-th with
\* sequence number k-1 and the audio of the k-th sentence, is_last on the N-th only.
C6_ChunkPerSentence ==
    \A t \in RequestTasks :
       LET S == _split_sentences(req[t].text)
       IN  (StreamEnded(t) /\ Len(S) >= 1 /\ calls[t].tts_failed = 0) =>
              /\ Len(chunks[t]) = Len(S)
              /\ \A k \in 1..Len(S) :
                    chunks[t][k] = StreamChunk(S[k], k - 1, k = Len(S), None)

C6_Witness ==
    /\ StreamEnded(1)
    /\ calls[1].tts_failed = 0
    /\ Len(chunks[1]) = 3

\* C7: a generation fails after j chunks: one more chunk follows, empty, with
\* the error, is_last and sequence number j; it is the last chunk, the failed
\* call was the last generation call, and no earlier chunk has is_last.
C7_ErrorChunk ==
    \A t \in RequestTasks :
       (StreamEnded(t) /\ calls[t].tts_failed > 0) =>
          LET j == Len(chunks[t]) - 1
          IN  /\ j >= 0
              /\ calls[t].tts_failed = 1
              /\ calls[t].tts = j + 1
              /\ \E o \in GenOutcomes \ {"ok"} :
                    chunks[t][j + 1] =
                       StreamChunk(EmptyPayload, j, TRUE, Some(gen_message(o)))
              /\ \A k \in 1..j :
                    /\ ~chunks[t][k].is_last
                    /\ chunks[t][k].error = None
                    /\ chunks[t][k].sequence_number = k - 1

\* The second of three sentences failed: the third was never generated.
C7_Witness ==
    /\ StreamEnded(1)
    /\ calls[1].tts_failed = 1
    /\ Len(chunks[1]) = 2
    /\ Len(sentences[1]) = 3

\* C8: no non-empty sentence: one chunk, sequence number 0, is_last, empty
\* payload, no error, and no generation call.
C8_EmptyInput ==
    \A t \in RequestTasks :
       (StreamEnded(t) /\ _split_sentences(req[t].text) = <<>>) =>
          /\ chunks[t] = <<StreamChunk(EmptyPayload, 0, TRUE, None)>>
          /\ calls[t].tts = 0

\* A streaming call on a text of white space only has ended with one chunk.
C8_Witness ==
    /\ StreamEnded(1)
    /\ req[1].text # <<>>
    /\ _split_sentences(req[1].text) = <<>>
    /\ Len(chunks[1]) = 1

-----------------------------------------------------------------------------
(***************************************************************************)
(* The pipelines and their temp files: C5, C9, C10                         *)
(***************************************************************************)

CreatesTempFiles ==
    {"clone_voice", "audio_to_audio", "clone_audio_to_audio", "add_voice"}

\* C5: when a call of clone_voice, audio_to_audio, clone_audio_to_audio or
\* POST /voices has returned or raised, none of the temp files it created is
\* left on disk.
C5_TempFilesDeleted ==
    \A t \in RequestTasks :
       (pc[t] = "done" /\ req[t].op \in CreatesTempFiles) =>
          created[t] \cap tmp_files = {}

Pipelines == {"translate_and_synthesize", "audio_to_audio", "clone_audio_to_audio"}

InvalidInput ==
    {"Voice not found in library", "Invalid base64 audio data",
     "Unsupported audio format", "Provide either voice_id or speaker_audio"}

\* C9: a pipeline call rejected for invalid input was rejected before any ASR
\* transcription, translation call or TTS generation was started for it.
C9_FailFast ==
    \A t \in RequestTasks :
       (/\ pc[t] = "done"
        /\ req[t].op \in Pipelines
        /\ ret[t].kind = "ValueError"
        /\ ret[t].msg \in InvalidInput) =>
          /\ calls[t].asr = 0
          /\ calls[t].translate = 0
          /\ calls[t].tts = 0

\* The call of task t is a clone_audio_to_audio with no reference at all.
NoReferenceCall(t) ==
    /\ req[t].op = "clone_audio_to_audio"
    /\ req[t].voice_id \in {None, Some("")}
    /\ req[t].speaker_audio \in {None, Some("")}

\* C10: clone_audio_to_audio with neither voice_id nor speaker_audio ends in its
\* first step on the ValueError, with no validate_audio_sample call, no temp
\* file created and no ASR call.
C10_NoReference ==
    /\ \A t \in RequestTasks :
          (NoReferenceCall(t) /\ pc[t] # "ready") =>
             /\ pc[t] = "done"
             /\ ret[t] = Raise("ValueError", "Provide either voice_id or speaker_audio")
             /\ calls[t] = NoCalls
             /\ created[t] = {}

\* Such a call, on input audio that validates, has raised; that of an empty
\* voice_id as well.
C10_Witness ==
    /\ NoReferenceCall(2)
    /\ req[2].audio = "wav-5s"
    /\ req[2].voice_id = Some("")
    /\ pc[2] = "done"
    /\ ret[2].kind = "ValueError"

-----------------------------------------------------------------------------
(***************************************************************************)
(* clone_audio_to_audio and its two references: C11                        *)
(***************************************************************************)

NoReferenceError == Raise("ValueError", "Provide either voice_id or speaker_audio")

\* The call of task t is a clone_audio_to_audio with both references.
BothReferencesCall(t) ==
    /\ req[t].op = "clone_audio_to_audio"
    /\ Truthy(req[t].voice_id)
    /\ Truthy(req[t].speaker_audio)

\* C11, as stated: a clone_audio_to_audio request that supplies both voice_id
\* and speaker_audio fails with the validation error and is never transcribed.
C11_Original ==
    \A t \in RequestTasks :
       (BothReferencesCall(t) /\ pc[t] # "ready") =>
          /\ ret[t] = NoReferenceError
          /\ calls[t].asr = 0

\* C11, amended: a request with neither reference fails with the validation
\* error before anything else is done; a request with at least one reference,
\* both included, goes on to the validation of the input audio and from there
\* to the transcription; with both references the audio of the library voice
\* is what clone_voice is handed, not the inline reference.
C11_AtLeastOne ==
    \A t \in RequestTasks :
       (req[t].op = "clone_audio_to_audio" /\ pc[t] # "ready") =>
          IF ~Truthy(req[t].voice_id) /\ ~Truthy(req[t].speaker_audio)
          THEN ret[t] = NoReferenceError /\ calls[t] = NoCalls
          ELSE /\ ret[t] # NoReferenceError
               /\ calls[t].validate >= 1
               /\ calls[t].asr = 1 <=> loc[t].tmp_path # None
               /\ (BothReferencesCall(t) /\ path[t] = "clone") =>
                     /\ get_voice(voices, req[t].voice_id[1]) # None
                     /\ loc[t].speaker_audio =
                           get_voice(voices, req[t].voice_id[1])[1].ref_audio_b64

\* A request with both references was transcribed and has reached clone_voice
\* with the audio of the library voice.
C11_Witness ==
    /\ BothReferencesCall(2)
    /\ calls[2].asr = 1
    /\ path[2] = "clone"
    /\ loc[2].speaker_audio # req[2].speaker_audio[1]

-----------------------------------------------------------------------------
(***************************************************************************)
(* The status codes of the HTTP layer: C12, C13                            *)
(***************************************************************************)

\* C12: when the generation of a call ran out of GPU memory, every endpoint
\* that ends in that call answers 503 with a Retry-After header.
C12_OutOfMemoryIs503 ==
    \A t \in RequestTasks :
       (pc[t] = "done" /\ ret[t].kind = "OutOfMemoryError") =>
          \A e \in EndpointsOf(req[t].op) :
             /\ http_response(e, ret[t]).code = 503
             /\ http_response(e, ret[t]).retry_after # None

UnknownVoice(r) == r = Raise("ValueError", "Voice not found in library")

\* C13: an endpoint answers 404 when the call ended on an unknown voice id, and
\* only then.
C13_UnknownVoiceIs404 ==
    \A t \in RequestTasks :
       pc[t] = "done" =>
          \A e \in EndpointsOf(req[t].op) :
             http_response(e, ret[t]).code = 404 <=> UnknownVoice(ret[t])

-----------------------------------------------------------------------------
(***************************************************************************)
(* initialize_models over several invocations: C15                         *)
(***************************************************************************)

\* C15: over any sequence of initialize_models invocations each model is
\* constructed at most once.
C15_ConstructedOnce == \A m \in Models : constructed[m] <= 1

-----------------------------------------------------------------------------
(***************************************************************************)
(* update_voice: C20                                                       *)
(***************************************************************************)

\* What a field of the entry is after update_voice was given the argument arg.
Supplied(arg, old) == IF IsNone(arg) THEN old ELSE arg[1]

\* What the claim allows a call update_voice(id, name, description) to change.
UpdateFrame(id, name, description) ==
    IF get_voice(voices, id) = None
    THEN /\ voices' = voices
         /\ index_file' = index_file
         /\ lib_last'.ret = None
    ELSE /\ Len(voices') = Len(voices)
         /\ \A i \in 1..Len(voices) :
               IF voices[i].id = id
               THEN /\ voices'[i] =
                          [voices[i] EXCEPT !.name = Supplied(name, @),
                                            !.description = Supplied(description, @)]
                    /\ lib_last'.ret = Some(voices'[i])
               ELSE voices'[i] = voices[i]

\* C20: a call of update_voice on a known id sets the supplied non-null fields
\* among name and description and leaves every other field and every other
\* entry as it was; on an unknown id it returns None and changes neither the
\* map nor the index file.
C20_UpdateFrame ==
    [][\A id \in VoiceIds, n \in UpdateNames, d \in UpdateDescriptions,
          o \in SaveOutcomes :
          update_voice(id, n, d, o) => UpdateFrame(id, n, d)]_vars

\* The library holds two voices and the last call renamed the first one,
\* "alice", without supplying a description.
C20_Witness ==
    /\ lib_last.op = "update"
    /\ lib_last.mutated
    /\ Len(voices) = 2
    /\ lib_last.ret = Some(voices[1])
    /\ voices[1].name = "bob"
    /\ voices[1].description = ""
    /\ voices[1].ref_audio_b64 = "wav-5s"
    /\ voices[2].ref_audio_b64 = "flac-3s"

-----------------------------------------------------------------------------
(***************************************************************************)
(* main.py: GET /health and GET /ready                                     *)
(***************************************************************************)

\* The status string of health_check.
health_check(custom_loaded, base_loaded, err) ==
    IF custom_loaded /\ base_loaded THEN "healthy"
    ELSE IF Truthy(err) THEN "error: " \o err[1]
    ELSE "initializing"

Ready == [kind |-> "ok", msg |-> "ready"]

readiness_check_mut(custom_loaded, base_loaded, err) ==
    IF custom_loaded THEN Ready
    ELSE Raise("HTTPException 503", IF Truthy(err) THEN err[1] ELSE "Models not loaded yet")

\* readiness_check: what it returns or the HTTPException it raises.
readiness_check(custom_loaded, base_loaded, err) ==
    IF custom_loaded /\ base_loaded THEN Ready
    ELSE Raise("HTTPException 503", IF Truthy(err) THEN err[1] ELSE "Models not loaded yet")

\* get_gpu_info on a host where torch.cuda.is_available() is cuda: with CUDA
\* it reads the attribute total_mem of the device properties, which PyTorch
\* does not have (the attribute is total_memory), and raises AttributeError.
get_gpu_info(cuda) ==
    IF cuda
    THEN [raised |-> TRUE, msg |-> "object has no attribute 'total_mem'",
          gpu_available |-> TRUE]
    ELSE [raised |-> FALSE, msg |-> "", gpu_available |-> FALSE]

HealthRequest == [NoReq EXCEPT !.op = "health"]
ReadyRequest == [NoReq EXCEPT !.op = "ready"]

\* The handler of GET /health runs when the loop gives it its turn: it calls
\* get_gpu_info, whose exception nothing catches, and then returns
\* a HealthResponse, which is a 200.
HealthCheck(t) ==
    /\ running = None
    /\ pc[t] = "ready"
    /\ req[t].op = "health"
    /\ \E cuda \in BOOLEAN :
          LET gpu_info == get_gpu_info(cuda)
          IN  IF gpu_info.raised
              THEN Finish(t, Raise("AttributeError", gpu_info.msg))
              ELSE Finish(t, [kind |-> "ok",
                              msg |-> health_check(custom_voice_model_loaded,
                                                   base_model_loaded, init_error)])
    /\ UNCHANGED <<req, path, used_model, calls, loc, svcVars, libVars, fsVars,
                   streamVars>>

\* The handler of GET /ready.
ReadinessCheck(t) ==
    /\ running = None
    /\ pc[t] = "ready"
    /\ req[t].op = "ready"
    /\ Finish(t, readiness_check(custom_voice_model_loaded, base_model_loaded,
                                 init_error))
    /\ UNCHANGED <<req, path, used_model, calls, loc, svcVars, libVars, fsVars,
                   streamVars>>

\* ---- SpecHealth: the startup task and two requests, each a probe or a
\* synthesis
HealthRequests ==
    {HealthRequest, ReadyRequest, SynthesizeRequest(Hello, "en"),
     CloneRequest(Hello, "wav-5s", "en")}

IssueHealth(t) == \E r \in HealthRequests : issue(t, r)

NextHealth ==
    \/ Startup
    \/ \E t \in Tasks : InitLoadCustom(t) \/ InitLoadBase(t) \/ PostInit(t)
    \/ \E t \in RequestTasks :
          \/ IssueHealth(t)
          \/ HealthCheck(t) \/ ReadinessCheck(t)
          \/ EnterSynthesize(t) \/ EnterCloneVoice(t)
          \/ SynthBody(t) \/ CloneBody(t)

SpecHealth == Init /\ [][NextHealth]_vars

-----------------------------------------------------------------------------
(***************************************************************************)
(* The probes: C14, C16, C17, C18                                          *)
(***************************************************************************)

\* Task g is at its generate_custom_voice or generate_voice_clone call.
Generating(g) == pc[g] = "body" /\ path[g] \in {"synth", "clone"}

HealthWaiting(h) == pc[h] = "ready" /\ req[h].op = "health"

\* C14: while the generation of one request is in progress, the handler of a
\* GET /health that has arrived can run.
C14_HealthDuringGeneration ==
    \A g \in RequestTasks, h \in RequestTasks :
       (Generating(g) /\ HealthWaiting(h)) => ENABLED HealthCheck(h)

\* An initialization attempt has failed and none is under way.
AfterFailedAttempt == init_error # None /\ ~model_lock /\ running = None

\* C16: a load failure is recorded and not raised.  After a failed attempt
\* init_error holds the message, a flag is set only for a model that was
\* constructed, the startup task has ended without an exception, and while not
\* both models are loaded /health carries the error in its status and /ready
\* raises 503 with the error as detail.
C16_FailureReported ==
    /\ \A m \in Models : Loaded(m) <=> constructed[m] >= 1
    /\ pc[0] = "done" => ret[0] = Ok
    /\ (AfterFailedAttempt /\ ~both_loaded) =>
          /\ health_check(custom_voice_model_loaded, base_model_loaded, init_error)
                = "error: " \o init_error[1]
          /\ readiness_check(custom_voice_model_loaded, base_model_loaded, init_error)
                = Raise("HTTPException 503", init_error[1])

\* The step is the answer of the GET /health of task t.
HealthAnswered(t) == HealthWaiting(t) /\ pc'[t] = "done"

\* C17: every GET /health is answered with a 200 whose status is "healthy"
\* exactly when both models are loaded, "error: <message>" exactly when not
\* both are loaded and an initialization error is recorded, and "initializing"
\* otherwise.
C17_HealthStatus ==
    [][\A t \in RequestTasks :
          HealthAnswered(t) =>
             /\ ret'[t].kind = "ok"
             /\ ret'[t].msg =
                   IF both_loaded THEN "healthy"
                   ELSE IF init_error # None THEN "error: " \o init_error[1]
                   ELSE "initializing"]_vars

\* The step is the answer of the GET /ready of task t.
ReadyAnswered(t) == pc[t] = "ready" /\ req[t].op = "ready" /\ pc'[t] = "done"

\* C18: GET /ready answers 503 in every state in which not both models are
\* loaded and ready exactly when both are; the loaded flags never revert, so
\* after a ready answer both models are loaded in every later state.
C18_ReadyIffBothLoaded ==
    /\ [][\A t \in RequestTasks :
             ReadyAnswered(t) =>
                IF custom_voice_model_loaded /\ base_model_loaded
                THEN ret'[t] = Ready
                ELSE ret'[t].kind = "HTTPException 503"]_vars
    /\ [][/\ custom_voice_model_loaded => custom_voice_model_loaded'
          /\ base_model_loaded => base_model_loaded']_vars
    /\ [](\A t \in RequestTasks :
             (pc[t] = "done" /\ req[t].op = "ready" /\ ret[t] = Ready) =>
                custom_voice_model_loaded /\ base_model_loaded)

\* Two GET /ready were answered, both ready.
C18_Witness ==
    /\ \A t \in RequestTasks : pc[t] = "done" /\ req[t].op = "ready" /\ ret[t] = Ready
    /\ custom_voice_model_loaded /\ base_model_loaded

-----------------------------------------------------------------------------
(***************************************************************************)
(* The model cache over several processes: C19                             *)
(***************************************************************************)

\* The process ends and a new one is started, with the GCS_MODEL_BUCKET of its
\* environment; the cache directory is kept.
Restart ==
    /\ running = None
    /\ pc[0] = "done"
    /\ \E b \in Buckets : gcs_bucket' = b
    /\ custom_voice_model' = 0
    /\ base_model' = 0
    /\ custom_voice_model_loaded' = FALSE
    /\ base_model_loaded' = FALSE
    /\ init_error' = None
    /\ model_lock' = FALSE
    /\ constructed' = [m \in Models |-> 0]
    /\ load_attempts' = 0
    /\ running' = None
    /\ pc' = [t \in Tasks |-> IF t = 0 THEN "ready" ELSE "idle"]
    /\ req' = [t \in Tasks |-> IF t = 0 THEN [NoReq EXCEPT !.op = "startup"] ELSE NoReq]
    /\ ret' = [t \in Tasks |-> NoRet]
    /\ path' = [t \in Tasks |-> "none"]
    /\ used_model' = [t \in Tasks |-> 0]
    /\ calls' = [t \in Tasks |-> NoCalls]
    /\ loc' = [t \in Tasks |-> NoLoc]
    /\ UNCHANGED <<markers, resolved, tmp_files, created, libVars, streamVars, extVars>>

\* ---- SpecPath: the startup initialization of one process after another
NextPath ==
    \/ Startup
    \/ InitLoadCustom(0)
    \/ InitLoadBase(0)
    \/ Restart

SpecPath == Init /\ [][NextPath]_vars

\* C19: once a download of a model has succeeded, every later resolution of
\* that model returns the path the download returned, from the cache check and
\* without a call of the downloader.
C19_CachedAfterDownload ==
    \A m \in Models :
       (resolved[m].step # "none" /\ resolved[m].had # None) =>
          /\ resolved[m].step = "cache"
          /\ resolved[m].path = resolved[m].had[1]
          /\ ~resolved[m].called

-----------------------------------------------------------------------------
(***************************************************************************)
(* add_voice, get_voice, delete_voice: C21, C22                            *)
(***************************************************************************)

\* get_voice on the id the call returned yields the arguments a.
RoundTrip(a) ==
    LET g == get_voice(voices', lib_last'.ret[1].id)
    IN  /\ g # None
        /\ g = lib_last'.ret
        /\ g[1].name = a.name
        /\ g[1].description = a.description
        /\ g[1].ref_audio_b64 = a.ref_audio_b64
        /\ g[1].ref_text = a.ref_text
        /\ g[1].language_hint = a.language_hint

\* The step is a call of add_voice, or of update_voice or delete_voice on an
\* id other than id.
LaterCallOnOthers(id) ==
    \/ lib_last'.op = "add"
    \/ lib_last'.op \in {"update", "delete"} /\ lib_last'.id # id

\* C21: get_voice on the id add_voice returned yields an entry with the name,
\* description, reference audio, ref_text and language_hint that were passed,
\* and a later add_voice, or update_voice or delete_voice of another id,
\* leaves what get_voice yields for it as it was.
C21_RoundTrip ==
    [][/\ \A a \in AddArgs, ts \in Timestamps, o \in SaveOutcomes :
             add_voice(a, ts, o) => RoundTrip(a)
       /\ \A id \in KnownIds :
             (get_voice(voices, id) # None /\ LaterCallOnOthers(id)) =>
                get_voice(voices', id) = get_voice(voices, id)]_vars

\* The first voice added was "bob"; after a second add_voice and an update of
\* the second voice, get_voice on the first id still yields what was passed.
C21_Witness ==
    /\ lib_last.op = "update"
    /\ lib_last.mutated
    /\ lib_last.id = uuid4(2)
    /\ get_voice(voices, uuid4(1)) # None
    /\ get_voice(voices, uuid4(1))[1].name = "bob"
    /\ get_voice(voices, uuid4(1))[1].description = "studio"
    /\ get_voice(voices, uuid4(1))[1].ref_audio_b64 = "flac-3s"
    /\ get_voice(voices, uuid4(1))[1].ref_text = Some("hello there")
    /\ get_voice(voices, uuid4(1))[1].language_hint = "ur"

\* What the claim allows a call delete_voice(id) to do.
DeleteFrame(id) ==
    IF get_voice(voices, id) # None
    THEN /\ lib_last'.ret # None
         /\ get_voice(voices', id) = None
         /\ \A i \in 1..Len(list_voices(voices')) : list_voices(voices')[i].id # id
         /\ \A other \in VoiceIds \ {id} :
               get_voice(voices', other) = get_voice(voices, other)
    ELSE /\ lib_last'.ret = None
         /\ voices' = voices
         /\ index_file' = index_file

\* C22: delete_voice(id) returns true exactly when id was present; after true,
\* get_voice(id) is absent, list_voices does not contain it and every other
\* entry is as it was; after false, the map and the index file are unchanged.
C22_DeleteFrame ==
    [][\A id \in VoiceIds, o \in SaveOutcomes :
          delete_voice(id, o) => DeleteFrame(id)]_vars

\* One of two voices was deleted; the other one is still there.
C22_Witness ==
    /\ lib_last.op = "delete"
    /\ lib_last.mutated
    /\ next_uuid = 2
    /\ Len(voices) = 1
    /\ voices[1].id # lib_last.id
    /\ get_voice(voices, lib_last.id) = None

-----------------------------------------------------------------------------
(***************************************************************************)
(* main.py: PATCH and DELETE /voices/{voice_id}; concurrent writes: C23    *)
(***************************************************************************)

UpdateVoiceRequest(voice_id, name, description) ==
    [NoReq EXCEPT !.op = "update_voice", !.voice_id = Some(voice_id),
                  !.new_name = name, !.new_description = description]

DeleteVoiceRequest(voice_id) ==
    [NoReq EXCEPT !.op = "delete_voice", !.voice_id = Some(voice_id)]

NotFound == Raise("HTTPException 404", "Voice not found")

\* PATCH /voices/{voice_id}: the handler has no await, the loop runs it whole.
PatchVoices(t) ==
    /\ running = None
    /\ pc[t] = "ready"
    /\ req[t].op = "update_voice"
    /\ \E o \in SaveOutcomes :
          update_voice(req[t].voice_id[1], req[t].new_name, req[t].new_description, o)
    /\ Finish(t, IF lib_last'.ret = None THEN NotFound ELSE Ok)
    /\ UNCHANGED <<req, path, used_model, calls, loc, svcVars, fsVars, streamVars>>

\* DELETE /voices/{voice_id}
DeleteVoices(t) ==
    /\ running = None
    /\ pc[t] = "ready"
    /\ req[t].op = "delete_voice"
    /\ \E o \in SaveOutcomes : delete_voice(req[t].voice_id[1], o)
    /\ Finish(t, IF lib_last'.ret = None THEN NotFound ELSE Ok)
    /\ UNCHANGED <<req, path, used_model, calls, loc, svcVars, fsVars, streamVars>>

\* ---- SpecRace: two mutating requests that are pending together, on an empty
\* library or on one that an earlier request has put a voice into
MutatingRequests ==
    {VoiceRequest("alice", a, "", None, "en") : a \in {"wav-5s", "wav-2s"}}
    \cup {VoiceRequest("bob", "flac-3s", "studio", Some("hello there"), "ur")}
    \cup {UpdateVoiceRequest(id, n, d) :
            id \in {uuid4(1), UnknownId}, n \in UpdateNames, d \in UpdateDescriptions}
    \cup {DeleteVoiceRequest(id) : id \in {uuid4(1), UnknownId}}

IssueRace(t) == \E r \in MutatingRequests : issue(t, r)

EarlierAdd ==
    /\ \A t \in RequestTasks : pc[t] = "idle"
    /\ next_uuid = 0
    /\ LibAdd

NextRace ==
    \/ EarlierAdd
    \/ \E t \in RequestTasks :
          IssueRace(t) \/ PostVoices(t) \/ PatchVoices(t) \/ DeleteVoices(t)

\* The loop gives every pending handler its turn.
SpecRace == Init /\ [][NextRace]_vars /\ WF_vars(NextRace)

\* Task t's request was answered with success: it changed the library.
Succeeded(t, op) == pc[t] = "done" /\ req[t].op = op /\ ret[t] = Ok

DeletedOk == {t \in RequestTasks : Succeeded(t, "delete_voice")}

\* The map holds what the request of task t did to it.
EffectInMap(t) ==
    CASE Succeeded(t, "add_voice") ->
            DeletedOk = {} =>
               \E i \in 1..Len(voices) :
                  /\ voices[i].ref_audio_b64 = req[t].audio
                  /\ voices[i].ref_text = req[t].ref_text
                  /\ voices[i].language_hint = req[t].language
      [] Succeeded(t, "update_voice") ->
            LET g == get_voice(voices, req[t].voice_id[1])
            IN  g # None =>
                   /\ req[t].new_name # None => g[1].name = req[t].new_name[1]
                   /\ req[t].new_description # None =>
                         g[1].description = req[t].new_description[1]
      [] Succeeded(t, "delete_voice") -> get_voice(voices, req[t].voice_id[1]) = None
      [] OTHER -> TRUE

\* Both requests were answered and the map or the index lacks what one did.
LostMutation ==
    /\ \A t \in RequestTasks : pc[t] = "done"
    /\ \/ \E t \in RequestTasks : ~EffectInMap(t)
       \/ Len(voices) # next_uuid - Cardinality(DeletedOk)
       \/ last_save = "ok" /\ ~FileHoldsMap

\* C23, as stated: two concurrent mutating requests can be interleaved so that
\* the map or the index lacks the effect of one of them.  The state is
\* not reachable, so no behaviour leads to it.
C23_Original == <>LostMutation

\* C23, amended: the handlers of POST, PATCH and DELETE /voices have no await
\* and run one after the other on the loop; after two requests that were
\* pending together the map holds the effect of both, and so does the index
\* whenever its last write went through.
C23_NoLostMutation == ~LostMutation

\* Two POST /voices that were pending together have both succeeded, on a
\* library that held one voice: it holds three, in memory and in the index.
C23_Witness ==
    /\ \A t \in RequestTasks : Succeeded(t, "add_voice")
    /\ Len(voices) = 3
    /\ last_save = "ok"
    /\ FileHoldsMap

-----------------------------------------------------------------------------
(***************************************************************************)
(* translation_provider.py: translate on its own: C24                      *)
(***************************************************************************)

TranslateBodies == {<<>>, <<"a">>}
TranslateLanguages == {"ur", "en"}

\* A call of translate on the provider singleton.
TranslateCall ==
    /\ \E b \in TranslateBodies, src \in TranslateLanguages, tgt \in TranslateLanguages,
          oa \in ArgosOutcomes, od \in DeepOutcomes :
          LET r == translate(provider, Text(b, src), src, tgt, oa, od)
          IN  /\ provider' = r.provider
              /\ translated' = [text |-> Text(b, src), source |-> src, target |-> tgt,
                                oa |-> oa, od |-> od, before |-> provider,
                                ret |-> r.ret, argos |-> r.argos, deep |-> r.deep]
    /\ UNCHANGED <<libVars, svcVars, taskVars, tmp_files, created, cacheVars, streamVars,
                   validated, xttsVars>>

SpecTranslate == Init /\ [][TranslateCall]_vars

\* What the backends of the last call had to give: the string the offline
\* one returns when it is asked, and the online one's.
OfflineResult ==
    IF translated.before.argos = Some(FALSE) THEN None
    ELSE BackendResult(translated.text, translated.target, translated.oa)

OnlineResult ==
    IF translated.before.deep = Some(FALSE) THEN None
    ELSE BackendResult(translated.text, translated.target, translated.od)

\* The claim about the last call, for a given reading of "the backend
\* succeeded".
TranslateContract(offline_ok, online_ok) ==
    IF translated.source = translated.target
    THEN /\ translated.ret = translated.text
         /\ translated.argos = "not called"
         /\ translated.deep = "not called"
    ELSE /\ translated.ret = IF offline_ok THEN OfflineResult[1]
                             ELSE IF online_ok THEN OnlineResult[1]
                             ELSE translated.text
         /\ offline_ok => translated.deep = "not called"
         /\ translated.deep # "not called" => translated.argos # "not called"

\* C24, as stated: a backend succeeds when it returns a string.
C24_Original == TranslateContract(OfflineResult # None, OnlineResult # None)

\* C24, amended: translate returns the text itself when source = target and
\* calls no backend; else the offline result when that is a non-empty
\* string, without a call of the online backend; else, after the offline
\* attempt, the online result when that is a non-empty string; else the text.
\* An empty string from a backend counts as its failure.
C24_Fallback == TranslateContract(HasText(OfflineResult), HasText(OnlineResult))

\* The offline backend returned an empty string for a text and the online
\* one was asked and gave the translation.
C24_Witness ==
    /\ translated.source = "ur"
    /\ translated.target = "en"
    /\ translated.text.body = <<"a">>
    /\ translated.oa = "empty"
    /\ translated.argos = "asked"
    /\ translated.deep = "asked"
    /\ translated.ret = Text(<<"a">>, "en")

-----------------------------------------------------------------------------
(***************************************************************************)
(* The language of the text that is synthesized: C25                       *)
(***************************************************************************)

ExtendedLanguages == {"ur", "ar", "hi"}

\* C25: when translate_and_synthesize or audio_to_audio with target language
\* ur, ar or hi has called the TTS model, the text it handed over is in the
\* bridge language of the target, which is the language named to the model.
C25_BridgeLanguageText ==
    \A t \in RequestTasks :
       (/\ req[t].op \in {"translate_and_synthesize", "audio_to_audio"}
        /\ req[t].tgt \in ExtendedLanguages
        /\ calls[t].tts >= 1) =>
          /\ loc[t].text.lang = get_bridge_language(req[t].tgt)
          /\ loc[t].language = _to_language_name(loc[t].text.lang)

-----------------------------------------------------------------------------
(***************************************************************************)
(* service.py: validate_audio_sample and _detect_audio_format on raw       *)
(* buffers                                                                 *)
(***************************************************************************)

\* The first four bytes of a buffer: the signatures, an MPEG frame sync with
\* and without the top three bits of the second byte, and near misses.
Heads ==
    {RIFF, fLaC, ID3 \o <<3>>, <<73, 68, 50, 0>>, <<255, 251, 144, 0>>,
     <<255, 224, 0, 0>>, <<255, 31, 0, 0>>, <<254, 255, 0, 0>>, wide, mdat, moov, Pad}
Mids == {Pad, ftyp}
Tails == {WAVE, Pad}
BufferLengths == {0, 3, 4, 8, 11, 12, 13}

Buffers ==
    {Slice(h \o m \o tl \o <<0>>, 0, n) :
        h \in Heads, m \in Mids, tl \in Tails, n \in BufferLengths}

\* validate_audio_sample on the base64 encoding of a buffer.
ValidateCall ==
    /\ \E data \in Buffers, m4a \in {"ok", "from_file"}, readable \in BOOLEAN,
          duration \in {2, 5}, write_ok \in BOOLEAN :
          LET v == validate_payload(Sample(TRUE, data, m4a, readable, duration),
                                    write_ok, 0, 1)
          IN  validated' = [data |-> data, fmt |-> _detect_audio_format(data),
                            called |-> TRUE, raised |-> v.raised, msg |-> v.msg,
                            created |-> v.created, left |-> v.left]
    /\ UNCHANGED <<libVars, svcVars, taskVars, tmp_files, created, cacheVars, streamVars,
                   translatorVars, xttsVars>>

SpecDetect == Init /\ [][ValidateCall]_vars

\* The bytes of sig stand at offset off (0-based) of data.
At(data, off, sig) ==
    /\ Len(data) >= off + Len(sig)
    /\ \A i \in 1..Len(sig) : data[off + i] = sig[i]

\* The first rule of the fixed order that a buffer of at least 12 bytes
\* matches.
FirstMatch(data) ==
    CASE At(data, 0, RIFF) /\ At(data, 8, WAVE) -> "WAV"
      [] ~(At(data, 0, RIFF) /\ At(data, 8, WAVE)) /\ At(data, 0, fLaC) -> "FLAC"
      [] OTHER ->
           IF At(data, 0, ID3) \/ (data[1] = 255 /\ data[2] >= 224) THEN "MP3"
           ELSE IF At(data, 4, ftyp) \/ At(data, 0, wide) \/ At(data, 0, mdat)
                   \/ At(data, 0, moov)
                THEN "M4A"
                ELSE "UNKNOWN"

\* C26: the detector answers UNKNOWN for a buffer shorter than 12 bytes and
\* otherwise the first rule that matches in the order WAV, FLAC, MP3, M4A,
\* UNKNOWN; validate_audio_sample rejects every UNKNOWN buffer with
\* a ValueError before it has created a temp file.
C26_FirstMatch ==
    validated.called =>
       /\ validated.fmt = IF Len(validated.data) < 12 THEN "UNKNOWN"
                          ELSE FirstMatch(validated.data)
       /\ validated.fmt = "UNKNOWN" =>
             /\ validated.raised
             /\ validated.msg = "Unsupported audio format"
             /\ validated.created = {}

\* A buffer with an MPEG frame sync at 0 and 'ftyp' at 4 was detected.
C26_Witness ==
    /\ validated.called
    /\ Len(validated.data) >= 12
    /\ validated.data[1] = 255
    /\ At(validated.data, 4, ftyp)
    /\ validated.fmt = "MP3"

-----------------------------------------------------------------------------
(***************************************************************************)
(* main.py: POST /voices stores a voice only after validation              *)
(***************************************************************************)

\* A sample that passes validation whenever its bytes can be written: valid
\* base64 of a supported format that can be read (after transcoding, for
\* M4A) and lasts at least the minimum duration.
ValidSample(a) ==
    LET smp == AudioTable(a)
    IN  /\ smp.b64_ok
        /\ _detect_audio_format(smp.data) \in {"WAV", "FLAC", "MP3", "M4A"}
        /\ _detect_audio_format(smp.data) = "M4A" => smp.m4a = "ok"
        /\ smp.readable
        /\ smp.duration >= MIN_AUDIO_DURATION_SECONDS

\* The handler of task t answers 400.
Answers400(t) == pc[t] = "done" /\ ret[t].kind = "HTTPException 400"

\* C27: POST /voices stores a voice only after validation passed: a request
\* whose sample validate_audio_sample rejects is answered 400 and leaves the
\* library (map, index file, the record of library calls) as it was, and
\* a request that is answered otherwise carried a valid sample.
C27_StoreAfterValidation ==
    [][\A t \in RequestTasks :
          (pc[t] = "ready" /\ req[t].op = "add_voice" /\ pc'[t] = "done") =>
             /\ ~ValidSample(req[t].audio) => Answers400(t)'
             /\ Answers400(t)' => UNCHANGED <<voices, index_file, lib_last, next_uuid>>
             /\ ~Answers400(t)' =>
                   /\ ValidSample(req[t].audio)
                   /\ lib_last'.op = "add"
                   /\ get_voice(voices', lib_last'.id) # None]_vars

\* A sample that is too short was turned away from a library that already
\* holds a voice.
C27_Witness ==
    \E t \in RequestTasks :
       /\ req[t].op = "add_voice"
       /\ Answers400(t)
       /\ ret[t].msg = "Audio sample too short"
       /\ calls[t].validate = 1
       /\ Len(voices) >= 1
       /\ lib_last.op = "add"

-----------------------------------------------------------------------------
(***************************************************************************)
(* xtts-service/main.py: XTTSService                                       *)
(***************************************************************************)

\* How many times TTS() is called in a behaviour.
MaxTTSAttempts == 3

\* An initialize_model that builds a model whether or not one exists.
always_construct_mut(g, svc, h, ok) ==
    IF ok
    THEN [tts_model |-> h, svc |-> [model |-> h, model_loaded |-> TRUE],
          called |-> TRUE, raised |-> FALSE]
    ELSE [tts_model |-> g, svc |-> svc, called |-> TRUE, raised |-> TRUE]

\* initialize_model on the global g and the service svc; h is the object
\* TTS() would build and ok whether it builds it.  The lock is free whenever
\* the coroutine asks for it, since its holder never suspends.
initialize_model(g, svc, h, ok) ==
    IF g # 0
    THEN [tts_model |-> g, svc |-> svc, called |-> FALSE, raised |-> FALSE]
    ELSE IF ok
         THEN [tts_model |-> h, svc |-> [model |-> h, model_loaded |-> TRUE],
               called |-> TRUE, raised |-> FALSE]
         ELSE [tts_model |-> g, svc |-> svc, called |-> TRUE, raised |-> TRUE]

\* _save_speaker_wav: the HTTPException raised or the path returned, with
\* the file created and the file left on disk.
SpeakerFile == "speaker.wav"
OutputFile == "output.wav"

_save_speaker_wav(audio_b64, write_ok) ==
    IF ~AudioTable(audio_b64).b64_ok
    THEN [raised |-> TRUE, code |-> 400, detail |-> "Invalid audio data",
          created |-> {}, left |-> {}]
    ELSE IF ~write_ok
         THEN [raised |-> TRUE, code |-> 400, detail |-> "Invalid audio data",
               created |-> {SpeakerFile}, left |-> {SpeakerFile}]
         ELSE [raised |-> FALSE, code |-> 0, detail |-> "",
               created |-> {SpeakerFile}, left |-> {SpeakerFile}]

\* The part of synthesize inside the outer try block, on the model handle
\* `model`: every exception, the HTTPException of _save_speaker_wav
\* included, leaves it as HTTPException 500.
synthesize_try(model, speaker_wav, write_ok, tts_ok) ==
    LET with_speaker == Truthy(speaker_wav)
        saved == IF with_speaker THEN _save_speaker_wav(speaker_wav[1], write_ok)
                 ELSE [raised |-> FALSE, code |-> 0, detail |-> "",
                       created |-> {}, left |-> {}]
    IN  IF saved.raised
        THEN [code |-> 500, detail |-> "Synthesis failed", created |-> saved.created,
              left |-> saved.left, tts_invoked |-> FALSE, tts_handle |-> 0]
        ELSE [code |-> IF model # 0 /\ tts_ok THEN 200 ELSE 500,
              detail |-> IF model # 0 /\ tts_ok THEN "" ELSE "Synthesis failed",
              created |-> saved.created \cup {OutputFile}, left |-> {},
              tts_invoked |-> TRUE, tts_handle |-> model]

XttsSpeakers == {None, Some(""), Some("wav-5s"), Some("zeros"), Some("not-base64")}

\* The task startup_event created runs initialize_model.
XttsStartupTask ==
    /\ xtts_log.task = "pending"
    /\ \E ok \in BOOLEAN :
          LET r == initialize_model(tts_model, xtts_service,
                                    xtts_log.constructed + 1, ok)
          IN  /\ tts_model' = r.tts_model
              /\ xtts_service' = r.svc
              /\ xtts_log' = [attempts |-> xtts_log.attempts + (IF r.called THEN 1 ELSE 0),
                              constructed |-> xtts_log.constructed
                                              + (IF r.called /\ ~r.raised THEN 1 ELSE 0),
                              task |-> IF r.raised THEN "failed" ELSE "done"]
    /\ UNCHANGED <<xtts_call, libVars, svcVars, taskVars, tmp_files, created, cacheVars,
                   streamVars, translatorVars, validated>>

\* POST /synthesize: XTTSService.synthesize, which has no suspension point.
XttsSynthesize ==
    /\ tts_model # 0 \/ xtts_log.attempts < MaxTTSAttempts
    /\ \E speaker_wav \in XttsSpeakers, ok \in BOOLEAN, write_ok \in BOOLEAN,
          tts_ok \in BOOLEAN :
          LET r == IF xtts_service.model_loaded
                   THEN [tts_model |-> tts_model, svc |-> xtts_service,
                         called |-> FALSE, raised |-> FALSE]
                   ELSE initialize_model(tts_model, xtts_service,
                                         xtts_log.constructed + 1, ok)
              b == synthesize_try(r.svc.model, speaker_wav, write_ok, tts_ok)
              before == [NoXttsCall EXCEPT !.called = TRUE, !.speaker_wav = speaker_wav,
                                           !.loaded_before = xtts_service.model_loaded,
                                           !.handle_before = tts_model,
                                           !.init_called = r.called,
                                           !.init_raised = r.raised]
          IN  /\ tts_model' = r.tts_model
              /\ xtts_service' = r.svc
              /\ xtts_log' = [xtts_log EXCEPT
                                !.attempts = @ + (IF r.called THEN 1 ELSE 0),
                                !.constructed = @ + (IF r.called /\ ~r.raised THEN 1 ELSE 0)]
              /\ xtts_call' =
                    IF r.raised
                    THEN [before EXCEPT !.code = 500,
                                        !.detail = "Model initialization failed"]
                    ELSE [before EXCEPT !.code = b.code, !.detail = b.detail,
                                        !.created = b.created, !.left = b.left,
                                        !.tts_invoked = b.tts_invoked,
                                        !.tts_handle = b.tts_handle]
    /\ UNCHANGED <<libVars, svcVars, taskVars, tmp_files, created, cacheVars,
                   streamVars, translatorVars, validated>>

NextXtts == XttsStartupTask \/ XttsSynthesize

SpecXtts == Init /\ [][NextXtts]_vars

\* The last call carried a speaker_wav that base64 cannot decode, and the
\* model was there to serve it.
UndecodableSpeaker ==
    /\ xtts_call.called
    /\ ~xtts_call.init_raised
    /\ Truthy(xtts_call.speaker_wav)
    /\ ~AudioTable(xtts_call.speaker_wav[1]).b64_ok

\* C28: a /synthesize request whose speaker_wav cannot be decoded is answered
\* 400 'Invalid audio data', not 500, and no temp file created for the
\* request remains.
C28_InvalidAudioIs400 ==
    UndecodableSpeaker =>
       /\ xtts_call.code = 400
       /\ xtts_call.detail = "Invalid audio data"
       /\ xtts_call.left = {}

\* C29: the TTS model is built at most once; a synthesize call that finds no
\* model after a failed attempt calls TTS() again; model_loaded is true only
\* when the handles are set, and tts_to_file is invoked on a set handle
\* only.
C29_LoadedOnce ==
    /\ xtts_log.constructed <= 1
    /\ xtts_service.model_loaded => (xtts_service.model # 0 /\ tts_model # 0)
    /\ (xtts_call.called /\ xtts_call.handle_before = 0) => xtts_call.init_called
    /\ xtts_call.tts_invoked => xtts_call.tts_handle # 0
    /\ tts_model = xtts_service.model

\* After two failed attempts a synthesize call built the model and used it,
\* and the startup task ran afterwards.
C29_Witness ==
    /\ xtts_log.attempts = 3
    /\ xtts_log.constructed = 1
    /\ xtts_log.task = "done"
    /\ xtts_call.init_called
    /\ xtts_call.tts_invoked
    /\ xtts_call.code = 200

-----------------------------------------------------------------------------
(***************************************************************************)
(* service.py: the loaded flags guard the generation calls                 *)
(***************************************************************************)

\* Task t calls generate_custom_voice or generate_voice_clone in this step.
CallsModel(t) ==
    calls'[t].tts + calls'[t].tts_failed > calls[t].tts + calls[t].tts_failed

\* C30: a loaded flag that is set implies that the model's handle is set, and
\* synthesize and synthesize_stream call generate_custom_voice only while
\* custom_voice_model_loaded holds, clone_voice calls generate_voice_clone
\* only while base_model_loaded holds, on the handle the flag stands for,
\* whatever the initialization attempts did.
C30_FlagGuardsGeneration ==
    /\ [](\A m \in Models : Loaded(m) => Handle(m) # 0)
    /\ [][\A t \in RequestTasks :
             CallsModel(t) =>
                /\ Loaded(ModelOf(path[t]))
                /\ Handle(ModelOf(path[t])) # 0
                /\ used_model'[t] = Handle(ModelOf(path[t]))]_vars

\* An attempt loaded CustomVoice and failed on Base: a synthesize call
\* generated audio on the CustomVoice handle, and a clone_voice call ended
\* without reaching the model.
C30_Witness ==
    /\ init_error # None
    /\ custom_voice_model_loaded
    /\ ~base_model_loaded
    /\ \E t, u \in RequestTasks :
          /\ path[t] = "synth" /\ Generated(t) /\ used_model[t] = custom_voice_model
          /\ req[u].op = "clone_voice" /\ pc[u] = "done" /\ calls[u].tts = 0
          /\ ret[u].kind = "RuntimeError"

=============================================================================
